---- MODULE Spec2Model ----
(***************************************************************************)
(* Model of the modular audio player of the repository:                    *)
(*   hooks/useAudioContext.ts  - the audio graph manager                   *)
(*   hooks/useAudioPlayer.ts   - track loading and playback                *)
(*   hooks/useAudioAnalysis.ts - the bass polling loop                     *)
(*   EnhancedAudioPlayer.tsx    - the player: repeat, shuffle, 'ended'      *)
(*   App.tsx                    - the track list and the shuffle history    *)
(*   audioStore / AudioBufferManager - the buffer-based store and its cache *)
(*                                                                         *)
(* The browser is the environment.  What the model takes from it:          *)
(*   - AudioContext.close() is asynchronous: the context's state becomes   *)
(*     'closed' when the returned promise resolves; a close() on a context *)
(*     that is being closed is rejected at once (InvalidStateError).       *)
(*   - createMediaElementSource throws "already connected" when the media  *)
(*     element is held by the source node of a context that is not closed; *)
(*     once that context is closed the browser may or may not have let go  *)
(*     of the element, so both outcomes are possible.                      *)
(*   - timers and promise completions are tasks of one event loop; their   *)
(*     relative order is not fixed.                                        *)
(* React re-renders after every task, so a callback invoked from outside   *)
(* sees the current state, while a timer or promise continuation keeps the *)
(* values captured when it was created (its closure).                      *)
(***************************************************************************)
EXTENDS Integers, Sequences, FiniteSets, TLC

\* ------------------------------------------------------------------ bounds
MaxCtx == 4
MaxOps == 3
MaxLoads == 2
MaxFrames == 3
MaxHist == 3
MaxTime == 1

\* ------------------------------------------------------- program constants
LoadDelay == 200
RetryDelay == 300

CtxId  == 1..MaxCtx
CallId == 1..MaxOps
LoadId == 1..MaxLoads
NoCtx  == 0
NoUrl  == ""
TrackUrls == {"http://host/a.mp3", "music/b.mp3"}
Urls   == {NoUrl} \cup TrackUrls

VARIABLES
  ctxState,          \* CtxId -> "none" (not constructed) | "suspended" | "running" | "closed"
  closing,           \* CtxId -> close() accepted, its promise not yet resolved
  closeCalls,        \* CtxId -> number of close() invocations on the context
  closeThen,         \* contexts whose close promise carries safeReset's .then(setAudioContext(null))
  srcEdge,           \* CtxId -> source node of the context is connected to its analyser
  anEdge,            \* CtxId -> analyser of the context is connected to the destination
  disconnectCalls,   \* number of disconnect() invocations
  boundTo,           \* context whose source node wraps the media element (NoCtx: never wrapped)
  audioSrc,          \* audio.src
  audioPaused,       \* audio.paused
  audioContext,      \* useState audioContext (NoCtx: null)
  analyser,          \* useState analyser, named by its context
  audioSource,       \* useState audioSource, named by its context
  animationFrameRef, \* animationFrameRef.current (0: null)
  frames,            \* handles of the animation frames requested and not yet run or cancelled
  url,               \* the url prop of useAudioPlayer
  volume,            \* the volume prop of useAudioPlayer, in tenths
  isPlaying,         \* useState isPlaying
  loading,           \* useState loading
  error,             \* useState error
  loads,             \* LoadId -> the run of the url effect started as that load
  cur,               \* the latest run of the url effect that returned a cleanup (0: none)
  mediaError,        \* audio.error is set (the resource failed to load or decode)
  bassValue,         \* useState bassValue, in thousandths
  loop,              \* the analysis effect of the last render started a loop (returned a cleanup)
  nextHandle,        \* the handle the next requestAnimationFrame returns
  loopAnalyser,      \* the analyser the running loop reads (the one its effect was run with)
  currentTime,       \* useState currentTime of useAudioPlayer
  audioTime,         \* audio.currentTime
  repeatMode,        \* useState repeatMode of the player: 0 no repeat, 1 repeat all, 2 repeat one
  playerIsShuffled,  \* useState isShuffled of the player
  lastEnded,         \* what the last 'ended' event made the player do
  allTracks,         \* useState allTracks of App: the paths of the tracks
  currentTrack,      \* useState currentTrack of App: its url (NoUrl: null)
  currentTrackIndex, \* useState currentTrackIndex of App, counted from 0 (-1: none)
  isShuffled,        \* useState isShuffled of App
  shuffleHistory,    \* useState shuffleHistory of App: track indexes
  shuffleHistoryIndex, \* useState shuffleHistoryIndex of App, counted from 0 (-1: none)
  duration,          \* useState duration of useAudioPlayer (0: not known)
  audioDuration,     \* audio.duration (0: NaN, no metadata)
  elementVolume,     \* audio.volume, in tenths
  press,             \* the play() promise of handlePlayPause: "none" or its fate
  mounted,           \* the player component is mounted
  fault,             \* the browser call that fails at present ("none": no call fails)
  unhandled,         \* an exception or a rejection has escaped every handler
  lastTick,          \* how the last run of analyzeBass ended: "none", "ok" or "caught"
  viz,               \* the last run of the visualization effect of the single-file player
  rendered,          \* the graph state and isPlaying the player's last render saw
  store,             \* the state of the audio store and of its AudioBufferManager
  calls,             \* CallId -> the createAudioContext call made as that operation
  hist               \* the operations invoked on the hook so far, in order

gvars == <<ctxState, closing, closeCalls, closeThen, srcEdge, anEdge, disconnectCalls,
           boundTo, audioSrc, audioPaused, audioContext, analyser, audioSource,
           animationFrameRef, frames, url, volume, isPlaying, loading, error, loads, cur,
           mediaError, bassValue, loop, nextHandle, loopAnalyser, currentTime, audioTime,
           repeatMode, playerIsShuffled, lastEnded, allTracks, currentTrack,
           currentTrackIndex, isShuffled, shuffleHistory, shuffleHistoryIndex,
           duration, audioDuration, elementVolume, press, mounted, fault, unhandled,
           lastTick, viz, rendered, store>>

vars == <<gvars, calls, hist>>

\* The program state as one value, so that the functions of the program compose.
G == [ctxState |-> ctxState, closing |-> closing, closeCalls |-> closeCalls,
      closeThen |-> closeThen, srcEdge |-> srcEdge, anEdge |-> anEdge,
      disconnectCalls |-> disconnectCalls, boundTo |-> boundTo, audioSrc |-> audioSrc,
      audioPaused |-> audioPaused, audioContext |-> audioContext, analyser |-> analyser,
      audioSource |-> audioSource, animationFrameRef |-> animationFrameRef,
      frames |-> frames, url |-> url, volume |-> volume, isPlaying |-> isPlaying,
      loading |-> loading, error |-> error, loads |-> loads, cur |-> cur,
      mediaError |-> mediaError, bassValue |-> bassValue, loop |-> loop,
      nextHandle |-> nextHandle,
      loopAnalyser |-> loopAnalyser,
      currentTime |-> currentTime,
      audioTime |-> audioTime,
      repeatMode |-> repeatMode,
      playerIsShuffled |-> playerIsShuffled,
      lastEnded |-> lastEnded,
      allTracks |-> allTracks,
      currentTrack |-> currentTrack,
      currentTrackIndex |-> currentTrackIndex,
      isShuffled |-> isShuffled,
      shuffleHistory |-> shuffleHistory,
      shuffleHistoryIndex |-> shuffleHistoryIndex,
      duration |-> duration,
      audioDuration |-> audioDuration,
      elementVolume |-> elementVolume,
      press |-> press,
      mounted |-> mounted,
      fault |-> fault,
      unhandled |-> unhandled,
      lastTick |-> lastTick,
      viz |-> viz,
      rendered |-> rendered,
      store |-> store]

SetG(g) ==
  /\ ctxState' = g.ctxState
  /\ closing' = g.closing
  /\ closeCalls' = g.closeCalls
  /\ closeThen' = g.closeThen
  /\ srcEdge' = g.srcEdge
  /\ anEdge' = g.anEdge
  /\ disconnectCalls' = g.disconnectCalls
  /\ boundTo' = g.boundTo
  /\ audioSrc' = g.audioSrc
  /\ audioPaused' = g.audioPaused
  /\ audioContext' = g.audioContext
  /\ analyser' = g.analyser
  /\ audioSource' = g.audioSource
  /\ animationFrameRef' = g.animationFrameRef
  /\ frames' = g.frames
  /\ url' = g.url
  /\ volume' = g.volume
  /\ isPlaying' = g.isPlaying
  /\ loading' = g.loading
  /\ error' = g.error
  /\ loads' = g.loads
  /\ cur' = g.cur
  /\ mediaError' = g.mediaError
  /\ bassValue' = g.bassValue
  /\ loop' = g.loop
  /\ nextHandle' = g.nextHandle
  /\ loopAnalyser' = g.loopAnalyser
  /\ currentTime' = g.currentTime
  /\ audioTime' = g.audioTime
  /\ repeatMode' = g.repeatMode
  /\ playerIsShuffled' = g.playerIsShuffled
  /\ lastEnded' = g.lastEnded
  /\ allTracks' = g.allTracks
  /\ currentTrack' = g.currentTrack
  /\ currentTrackIndex' = g.currentTrackIndex
  /\ isShuffled' = g.isShuffled
  /\ shuffleHistory' = g.shuffleHistory
  /\ shuffleHistoryIndex' = g.shuffleHistoryIndex
  /\ duration' = g.duration
  /\ audioDuration' = g.audioDuration
  /\ elementVolume' = g.elementVolume
  /\ press' = g.press
  /\ mounted' = g.mounted
  /\ fault' = g.fault
  /\ unhandled' = g.unhandled
  /\ lastTick' = g.lastTick
  /\ viz' = g.viz
  /\ rendered' = g.rendered
  /\ store' = g.store

\* The values of the hook state a callback was created with.
Closure(g) == [ctx |-> g.audioContext, src |-> g.audioSource, an |-> g.analyser]

NoCall == [phase |-> "none", cl |-> [ctx |-> NoCtx, src |-> NoCtx, an |-> NoCtx],
           url |-> NoUrl, result |-> "pending", wraps |-> 0,
           newCtx |-> NoCtx, retryCtx |-> NoCtx, resumed |-> FALSE]

\* The browser calls of the graph manager that can be made to fail.
Faults == {"construct", "analyser", "wrap", "connect", "disconnect", "close"}

Live(st) == {c \in CtxId : st[c] \in {"suspended", "running"}}
Unused(st) == {c \in CtxId : st[c] = "none"}
Fresh(st) == CHOOSE c \in Unused(st) : \A d \in Unused(st) : c <= d

\* ------------------------------------------------------- useAudioContext.ts

\* context.close() as the browser performs it on context c.
Close(g, c, then) ==
  IF g.closing[c] \/ g.fault = "close"
    THEN \* rejected at once; .catch swallows it and a .then runs in the same task
         [g EXCEPT !.closeCalls[c] = @ + 1,
                   !.audioContext = IF then THEN NoCtx ELSE @]
    ELSE [g EXCEPT !.closeCalls[c] = @ + 1,
                   !.closing[c] = TRUE,
                   !.closeThen = IF then THEN @ \cup {c} ELSE @]

\* safelyCloseAudioContext(context), followed by .then(setAudioContext(null)) when
\* `then` is set (the caller chains it).
safelyCloseAudioContext(g, c, then) ==
  IF c = NoCtx \/ g.ctxState[c] = "closed"
    THEN [g EXCEPT !.audioContext = IF then THEN NoCtx ELSE @]
    ELSE Close(g, c, then)

\* audioSource.disconnect() and analyser.disconnect(), each in its own try, each
\* followed by its setState(null) whether it threw or not.
DisconnectMutant(g, cl) ==
  IF g.fault = "disconnect" /\ (cl.src # NoCtx \/ cl.an # NoCtx)
    THEN [g EXCEPT !.disconnectCalls = @ + 1, !.unhandled = TRUE]
    ELSE g
Disconnect(g, cl) ==
  LET cut == g.fault # "disconnect"
      g1 == IF cl.src # NoCtx
              THEN [g EXCEPT !.srcEdge[cl.src] = IF cut THEN FALSE ELSE @,
                             !.disconnectCalls = @ + 1,
                             !.audioSource = NoCtx]
              ELSE g
  IN  IF cl.an # NoCtx
        THEN [g1 EXCEPT !.anEdge[cl.an] = IF cut THEN FALSE ELSE @,
                        !.disconnectCalls = @ + 1,
                        !.analyser = NoCtx]
        ELSE g1

\* if (animationFrameRef.current) { cancelAnimationFrame(...); animationFrameRef.current = null }
CancelFrame(g) ==
  IF g.animationFrameRef # 0
    THEN [g EXCEPT !.frames = @ \ {g.animationFrameRef}, !.animationFrameRef = 0]
    ELSE g

\* resetAudioContext, run with the closure cl.
resetAudioContext(g, cl) ==
  LET g1 == Disconnect(g, cl)
      g2 == IF cl.ctx # NoCtx
              THEN LET g3 == IF g1.ctxState[cl.ctx] # "closed"
                               THEN Close(g1, cl.ctx, FALSE)
                               ELSE g1
                   IN  [g3 EXCEPT !.audioContext = NoCtx]
              ELSE g1
  IN  CancelFrame(g2)

\* safeResetAudioContext, run with the closure cl.
safeResetAudioContext(g, cl) ==
  LET g1 == Disconnect(g, cl)
      g2 == IF cl.ctx # NoCtx
              THEN safelyCloseAudioContext(g1, cl.ctx, TRUE)
              ELSE g1
  IN  CancelFrame(g2)

\* What createMediaElementSource(audio) can do in graph state g.
WrapOutcomes(g) ==
  IF g.fault = "wrap" THEN {"error"}
  ELSE IF g.boundTo = NoCtx THEN {"ok"}
  ELSE IF g.ctxState[g.boundTo] = "closed" THEN {"ok", "connected"}
  ELSE {"connected"}

FreshStates == {"suspended", "running"}

\* new AudioContext() in state s, named n.
NewContext(g, n, s) == [g EXCEPT !.ctxState[n] = s]

\* source.connect(analyser); analyser.connect(destination); the three setState calls.
Install(g, n) ==
  [g EXCEPT !.boundTo = n, !.srcEdge[n] = TRUE, !.anEdge[n] = TRUE,
            !.audioContext = n, !.analyser = n, !.audioSource = n]

\* The wrap by context n succeeded: the graph is connected and installed, unless
\* connect() throws, which leaves the element wrapped and the call resolved false.
Connect(g, call, n, suspended) ==
  IF g.fault = "connect"
    THEN <<[g EXCEPT !.boundTo = n], [call EXCEPT !.phase = "done", !.result = "false"]>>
  ELSE IF suspended
    THEN <<Install(g, n), [call EXCEPT !.phase = "resume", !.resumed = TRUE]>>
  ELSE <<Install(g, n), [call EXCEPT !.phase = "done", !.result = "true"]>>

\* createNewContext(sourceUrl) of call k, whose closure is cl.  s0, o1 are the state
\* of the new context and the outcome of the first wrap; s1, o2 those of the retry.
\* The result is <<graph state, call record>>.  Every exception is caught by the
\* function's own try blocks and makes it return false.
createNewContext(g, call, s0, o1, s1, o2) ==
  IF g.audioSrc = NoUrl /\ call.url = NoUrl
    THEN <<g, [call EXCEPT !.phase = "done", !.result = "false"]>>
  ELSE
    LET ga == IF g.audioSrc = NoUrl THEN [g EXCEPT !.audioSrc = call.url] ELSE g
        n  == Fresh(ga.ctxState)
        gb == NewContext(ga, n, s0)
        c1 == [call EXCEPT !.newCtx = n, !.wraps = 1]
    IN
    IF g.fault = "construct"
      THEN <<ga, [call EXCEPT !.phase = "done", !.result = "false"]>>
    ELSE IF g.fault = "analyser"
      THEN <<gb, [call EXCEPT !.newCtx = n, !.phase = "done", !.result = "false"]>>
    ELSE IF o1 = "ok"
      THEN Connect(gb, c1, n, s0 = "suspended")
    ELSE IF o1 = "error"
      THEN <<gb, [c1 EXCEPT !.phase = "done", !.result = "false"]>>
    ELSE
      \* "already connected": close the context of the closure, then retry once
      LET gc == IF call.cl.ctx # NoCtx
                  THEN [safelyCloseAudioContext(gb, call.cl.ctx, FALSE)
                          EXCEPT !.audioContext = NoCtx]
                  ELSE gb
          gd == [gc EXCEPT !.audioPaused = TRUE]
          r  == Fresh(gd.ctxState)
          ge == NewContext(gd, r, s1)
          c2 == [c1 EXCEPT !.retryCtx = r, !.wraps = 2]
      IN  IF o2 = "ok"
            THEN Connect(ge, c2, r, FALSE)
            ELSE <<ge, [c2 EXCEPT !.phase = "done", !.result = "false"]>>


\* -------------------------------------------------------- useAudioPlayer.ts

NoLoad == [url |-> NoUrl, isMounted |-> FALSE, phase |-> "none", timer |-> 0,
           plays |-> 0, errs |-> <<>>, fate |-> "none"]

NoError == [text |-> "", detail |-> ""]

\* Nothing done yet by an 'ended' handler.
NoEnded == [index |-> -1, play |-> FALSE, onNext |-> FALSE, onPrevious |-> FALSE]

\* sanitizeUrl: http and /api/ urls are returned as they are, any other path is
\* encoded into a request to the audio API.
sanitizeUrl(u) ==
  IF u = NoUrl THEN NoUrl
  ELSE IF u \in {"http://host/a.mp3", "http://drive/f.mp3"} THEN u
  ELSE IF u \in {"/api/audio?path=music%2Fb.mp3"} THEN u
  ELSE IF u = "music/b.mp3" THEN "/api/audio?path=music%2Fb.mp3"
  ELSE IF u = "music/c.mp3" THEN "/api/audio?path=music%2Fc.mp3"
  ELSE "/api/audio?path="

\* What the browser does to the play() promises that are pending when the element's
\* resource is replaced (AbortError) or fails (NotSupportedError).
SettlePlays(g, how) ==
  [g EXCEPT !.loads = [l \in LoadId |->
     IF g.loads[l].phase \in {"play", "retryPlay"} /\ g.loads[l].fate = "open"
       THEN [g.loads[l] EXCEPT !.fate = how]
       ELSE g.loads[l]],
            !.press = IF @ = "open" THEN how ELSE @]

\* audio.pause(); audio.src = ''; audio.removeAttribute('src'); audio.load()
DetachSource(g) ==
  SettlePlays([g EXCEPT !.audioPaused = TRUE, !.audioSrc = NoUrl, !.mediaError = FALSE,
                        !.audioTime = 0, !.audioDuration = 0],
              "AbortError")

handleSuccess(g, l) ==
  IF ~g.loads[l].isMounted THEN g
  ELSE [g EXCEPT !.loading = FALSE, !.isPlaying = TRUE]

handleFailure(g, l, err) ==
  IF ~g.loads[l].isMounted THEN g
  ELSE [g EXCEPT !.loading = FALSE, !.isPlaying = FALSE,
                 !.error = [text |-> "Error loading audio: ", detail |-> err]]

handleErrorMutant(g) ==
  [g EXCEPT !.error = [text |-> "Error loading audio. Please try again or select another track.",
                       detail |-> ""]]
handleError(g) ==
  [g EXCEPT !.error = [text |-> "Error loading audio. Please try again or select another track.",
                       detail |-> ""],
            !.loading = FALSE, !.isPlaying = FALSE]

\* audio.play() on behalf of load l; the promise is settled later.
Play(g, l, phase) ==
  [g EXCEPT !.loads[l].plays = @ + 1,
            !.loads[l].phase = phase,
            !.loads[l].timer = 0,
            !.loads[l].fate = IF g.mediaError THEN "NotSupportedError" ELSE "open"]

PlayOutcomes(fate) == IF fate = "open" THEN {"ok", "NotAllowedError"} ELSE {fate}

FreeLoads(g) == {l \in LoadId : g.loads[l].phase = "none"}

\* The url effect, re-run with the props u and v and with the safeResetAudioContext
\* of closure cl: the cleanup of the previous run, then the body.
RunUrlEffect(g, u, v, cl) ==
  LET g0 == [g EXCEPT !.url = u, !.volume = v]
      g1 == IF g.cur # 0
              THEN [g0 EXCEPT !.loads[g.cur].isMounted = FALSE, !.cur = 0]
              ELSE g0
  IN  IF u = NoUrl THEN g1
      ELSE
        LET l  == CHOOSE x \in FreeLoads(g) : \A y \in FreeLoads(g) : x <= y
            g2 == [g1 EXCEPT !.loading = TRUE, !.error = NoError]
            g3 == safeResetAudioContext(g2, cl)
            g4 == DetachSource(g3)
        IN  [g4 EXCEPT !.loads[l] = [NoLoad EXCEPT !.url = u, !.isMounted = TRUE,
                                                   !.phase = "timer", !.timer = LoadDelay],
                       !.cur = l]

\* The url effect of a render whose safeResetAudioContext closes over the current
\* graph state.
UrlEffectMutant(g, u, v) ==
  LET g0 == [g EXCEPT !.url = u, !.volume = v]
      g1 == IF g.cur # 0
              THEN [g0 EXCEPT !.loads[g.cur].isMounted = FALSE, !.cur = 0]
              ELSE g0
  IN  IF u = NoUrl THEN g1
      ELSE
        LET l  == CHOOSE x \in FreeLoads(g) : \A y \in FreeLoads(g) : x <= y
            g2 == [g1 EXCEPT !.error = NoError]
            g3 == safeResetAudioContext(g2, Closure(g2))
            g4 == DetachSource(g3)
        IN  [g4 EXCEPT !.loads[l] = [NoLoad EXCEPT !.url = u, !.isMounted = TRUE,
                                                   !.phase = "timer", !.timer = LoadDelay],
                       !.cur = l]
UrlEffect(g, u, v) == RunUrlEffect(g, u, v, Closure(g))

\* audio.volume = v: a value outside [0, 1] throws IndexSizeError and changes nothing.
VolumeOK(v) == v \in 0..10

\* audio.src = sanitizedUrl; audio.volume = volume; audio.load(); audio.play() of load l.
\* The assignment of the volume throws when the volume is out of range: the catch
\* around the timer's body hands the exception to handleFailure.
StartLoad(g, l) ==
  LET g1 == SettlePlays([g EXCEPT !.audioSrc = sanitizeUrl(g.loads[l].url),
                                 !.audioPaused = TRUE, !.mediaError = FALSE,
                                 !.audioTime = 0, !.audioDuration = 0],
                        "AbortError")
  IN  IF VolumeOK(g.volume)
        THEN Play([g1 EXCEPT !.elementVolume = g.volume], l, "play")
        ELSE [handleFailure(g1, l, "IndexSizeError")
                EXCEPT !.loads[l].phase = "done", !.loads[l].timer = 0]

\* The 200 ms timer of load l.
loadTimerMutant(g, l) == StartLoad(g, l)
loadTimer(g, l) ==
  IF ~g.loads[l].isMounted
    THEN [g EXCEPT !.loads[l].phase = "done", !.loads[l].timer = 0]
  ELSE IF sanitizeUrl(g.loads[l].url) = NoUrl
    THEN [handleFailure(g, l, "Invalid audio URL")
            EXCEPT !.loads[l].phase = "done", !.loads[l].timer = 0]
  ELSE StartLoad(g, l)

\* The promise of the automatic play() of load l settles.
playSettled(g, l, out) ==
  IF out = "ok"
    THEN [handleSuccess(g, l) EXCEPT !.audioPaused = FALSE, !.loads[l].phase = "done",
                                     !.loads[l].fate = "none"]
    ELSE [g EXCEPT !.loads[l].errs = Append(@, out), !.loads[l].phase = "timer",
                   !.loads[l].timer = RetryDelay, !.loads[l].fate = "none"]

\* The 300 ms retry timer of load l.
retryTimer(g, l) ==
  IF ~g.loads[l].isMounted
    THEN [g EXCEPT !.loads[l].phase = "done", !.loads[l].timer = 0]
    ELSE Play(g, l, "retryPlay")

\* The promise of the retried play() of load l settles.
retrySettledMutant(g, l, out) ==
  IF out = "ok"
    THEN [handleSuccess(g, l) EXCEPT !.audioPaused = FALSE, !.loads[l].phase = "done",
                                     !.loads[l].fate = "none"]
    ELSE [g EXCEPT !.loads[l].errs = Append(@, out), !.loads[l].phase = "timer",
                   !.loads[l].timer = RetryDelay, !.loads[l].fate = "none"]
retrySettled(g, l, out) ==
  IF out = "ok"
    THEN [handleSuccess(g, l) EXCEPT !.audioPaused = FALSE, !.loads[l].phase = "done",
                                     !.loads[l].fate = "none"]
    ELSE [handleFailure(g, l, out) EXCEPT !.loads[l].errs = Append(@, out),
                                          !.loads[l].phase = "done",
                                          !.loads[l].fate = "none"]

\* The element's 'error' event: the resource failed to load or decode.
audioError(g) ==
  handleError(SettlePlays([g EXCEPT !.mediaError = TRUE, !.audioPaused = TRUE],
                          "NotSupportedError"))

\* ------------------------------------------------------ useAudioAnalysis.ts

Bins == 1..8
\* The byte values the bins of a snapshot take: the first bin and the other seven.
ByteSamples == {0, 128, 255}
Snapshots == {[i \in Bins |-> IF i = 1 THEN a ELSE b] : a, b \in ByteSamples}

RECURSIVE SumBins(_, _)
SumBins(d, i) == IF i = 0 THEN 0 ELSE d[i] + SumBins(d, i - 1)

MaxBin(d) == CHOOSE m \in {d[i] : i \in Bins} : \A i \in Bins : d[i] <= m

\* min(1, avgBass * 0.7 + (maxBassValue / 255) * 0.3), in fiftieths
NormalizedBass(d) ==
  LET x == (7 * SumBins(d, 8) * 50) \div (8 * 255 * 10) + (3 * MaxBin(d) * 50) \div (255 * 10)
  IN  IF x > 50 THEN 50 ELSE x

\* Math.pow(n, 0.8) on fiftieths, rounded down: the y with y^5 <= n^4 * 50 < (y+1)^5
Pow08(n) == CHOOSE y \in 0..50 : y^5 <= n^4 * 50 /\ (y + 1)^5 > n^4 * 50

\* scaledBass = pow(normalizedBass, 0.8) * 0.8, in thousandths
ScaledBassMutant(d) == Pow08(NormalizedBass(d)) * 20
ScaledBass(d) == Pow08(NormalizedBass(d)) * 16

\* One run of analyzeBass: it publishes the bass value and requests the next frame,
\* or getByteFrequencyData throws and it publishes 0 and requests nothing.
analyzeBassMutant(g, d, throws) ==
  IF throws
    THEN [g EXCEPT !.lastTick = "caught"]
    ELSE [g EXCEPT !.bassValue = ScaledBass(d),
                   !.animationFrameRef = g.nextHandle,
                   !.frames = @ \cup {g.nextHandle},
                   !.nextHandle = @ + 1,
                   !.lastTick = "ok"]
analyzeBass(g, d, throws) ==
  IF throws
    THEN [g EXCEPT !.bassValue = 0, !.lastTick = "caught"]
    ELSE [g EXCEPT !.bassValue = ScaledBass(d),
                   !.animationFrameRef = g.nextHandle,
                   !.frames = @ \cup {g.nextHandle},
                   !.nextHandle = @ + 1,
                   !.lastTick = "ok"]

\* The cleanup the analysis effect returned when it started a loop.
AnalysisCleanupMutant(g) == g
AnalysisCleanup(g) == IF g.loop THEN CancelFrame(g) ELSE g

\* The analysis effect, re-run with the props an and playing.
AnalysisEffectMutant(g, an, playing, d, throws) ==
  LET g1 == [AnalysisCleanup(g) EXCEPT !.loop = FALSE, !.loopAnalyser = NoCtx,
                                       !.analyser = an,
                                       !.isPlaying = playing]
  IN  IF an = NoCtx
        THEN IF ~playing THEN [g1 EXCEPT !.bassValue = 0] ELSE g1
        ELSE [analyzeBass(g1, d, throws) EXCEPT !.loop = TRUE, !.loopAnalyser = an]
AnalysisEffect(g, an, playing, d, throws) ==
  LET g1 == [AnalysisCleanup(g) EXCEPT !.loop = FALSE, !.loopAnalyser = NoCtx,
                                       !.analyser = an,
                                       !.isPlaying = playing]
  IN  IF an = NoCtx \/ ~playing
        THEN IF ~playing THEN [g1 EXCEPT !.bassValue = 0] ELSE g1
        ELSE [analyzeBass(g1, d, throws) EXCEPT !.loop = TRUE, !.loopAnalyser = an]

\* ------------------------------------------------------------ App (part_008)

TrackA == "http://host/a.mp3"
TrackB == "music/b.mp3"
TrackC == "music/c.mp3"

\* A file picked outside the track list (Google Drive or a single local file).
FileUrl == "http://drive/f.mp3"

\* The track lists the selector hands to handleTracksLoaded.
Playlists == {<<TrackA>>, <<TrackA, TrackB>>, <<TrackA, TrackB, TrackC>>}

\* array[i] and array.slice(0, n) for the 0-based indexes of the code.
At(a, i) == a[i + 1]
Slice(a, n) == SubSeq(a, 1, IF n < Len(a) THEN n ELSE Len(a))

\* allTracks.findIndex(t => t.path === path)
FindIndex(tracks, path) ==
  IF \E i \in 1..Len(tracks) : tracks[i] = path
    THEN (CHOOSE i \in 1..Len(tracks) :
            tracks[i] = path /\ \A j \in 1..Len(tracks) : tracks[j] = path => i <= j) - 1
    ELSE -1

\* setCurrentTrack({url}) and the effect that follows every change of currentTrack.
setCurrentTrack(g, u) ==
  [g EXCEPT !.currentTrack = u,
            !.currentTrackIndex = IF u # NoUrl THEN FindIndex(g.allTracks, u) ELSE @]

handleLocalFileSelect(g, u) == setCurrentTrack(g, u)

handleTrackSelect(g, path) ==
  LET index == FindIndex(g.allTracks, path)
      newHistory == IF g.shuffleHistoryIndex >= 0
                      THEN Append(Slice(g.shuffleHistory, g.shuffleHistoryIndex + 1), index)
                      ELSE <<index>>
      g1 == [g EXCEPT !.currentTrackIndex = index]
      g2 == IF g.isShuffled
              THEN [g1 EXCEPT !.shuffleHistory = newHistory,
                              !.shuffleHistoryIndex = Len(newHistory) - 1]
              ELSE g1
  IN  IF index # -1 THEN setCurrentTrack(g2, path) ELSE g

\* The indexes Math.random chooses from in getNextTrackIndex.
availableIndexes(g) == {i \in 0..(Len(g.allTracks) - 1) : i # g.currentTrackIndex}

\* getNextTrackIndex draws from Math.random only on this path.
PicksRandom(g) ==
  /\ g.isShuffled
  /\ ~(g.shuffleHistoryIndex < Len(g.shuffleHistory) - 1)
  /\ Len(g.allTracks) > 1

\* getNextTrackIndex; r is the index Math.random selects.
getNextTrackIndexMutant(g, r) ==
  IF ~g.isShuffled
    THEN IF g.currentTrackIndex < Len(g.allTracks) - 1 THEN g.currentTrackIndex + 1 ELSE 0
  ELSE IF Len(g.allTracks) = 0 THEN -1
  ELSE IF g.shuffleHistoryIndex < Len(g.shuffleHistory) - 1
    THEN At(g.shuffleHistory, g.shuffleHistoryIndex + 1)
  ELSE IF Len(g.allTracks) > 1 THEN r
  ELSE g.currentTrackIndex
getNextTrackIndex(g, r) ==
  IF ~g.isShuffled
    THEN IF g.currentTrackIndex < Len(g.allTracks) - 1 THEN g.currentTrackIndex + 1 ELSE -1
  ELSE IF Len(g.allTracks) = 0 THEN -1
  ELSE IF g.shuffleHistoryIndex < Len(g.shuffleHistory) - 1
    THEN At(g.shuffleHistory, g.shuffleHistoryIndex + 1)
  ELSE IF Len(g.allTracks) > 1 THEN r
  ELSE g.currentTrackIndex

getPreviousTrackIndexMutant(g) ==
  IF g.currentTrackIndex > 0 THEN g.currentTrackIndex - 1 ELSE -1
getPreviousTrackIndex(g) ==
  IF ~g.isShuffled
    THEN IF g.currentTrackIndex > 0 THEN g.currentTrackIndex - 1 ELSE -1
  ELSE IF Len(g.shuffleHistory) > 0 /\ g.shuffleHistoryIndex > 0
    THEN At(g.shuffleHistory, g.shuffleHistoryIndex - 1)
  ELSE -1

handleShuffleChange(g, shuffleState) ==
  LET g1 == [g EXCEPT !.isShuffled = shuffleState]
  IN  IF shuffleState /\ g.currentTrackIndex # -1
        THEN [g1 EXCEPT !.shuffleHistory = <<g.currentTrackIndex>>,
                        !.shuffleHistoryIndex = 0]
        ELSE [g1 EXCEPT !.shuffleHistory = <<>>, !.shuffleHistoryIndex = -1]

handlePreviousTrackMutant(g) ==
  LET newIndex == getPreviousTrackIndex(g)
      g1 == [g EXCEPT !.currentTrackIndex = newIndex]
      g2 == IF g.isShuffled /\ g.shuffleHistoryIndex > 0
              THEN [g1 EXCEPT !.shuffleHistory = Slice(@, g.shuffleHistoryIndex),
                              !.shuffleHistoryIndex = g.shuffleHistoryIndex - 1]
              ELSE g1
  IN  IF newIndex # -1 THEN setCurrentTrack(g2, At(g.allTracks, newIndex)) ELSE g
handlePreviousTrack(g) ==
  LET newIndex == getPreviousTrackIndex(g)
      g1 == [g EXCEPT !.currentTrackIndex = newIndex]
      g2 == IF g.isShuffled /\ g.shuffleHistoryIndex > 0
              THEN [g1 EXCEPT !.shuffleHistoryIndex = g.shuffleHistoryIndex - 1]
              ELSE g1
  IN  IF newIndex # -1 THEN setCurrentTrack(g2, At(g.allTracks, newIndex)) ELSE g

handleNextTrack(g, r) ==
  LET newIndex == getNextTrackIndex(g, r)
      newHistory == Append(Slice(g.shuffleHistory, g.shuffleHistoryIndex + 1), newIndex)
      g1 == [g EXCEPT !.currentTrackIndex = newIndex]
      g2 == IF ~g.isShuffled THEN g1
            ELSE IF g.shuffleHistoryIndex < Len(g.shuffleHistory) - 1
              THEN [g1 EXCEPT !.shuffleHistoryIndex = g.shuffleHistoryIndex + 1]
              ELSE [g1 EXCEPT !.shuffleHistory = newHistory,
                              !.shuffleHistoryIndex = Len(newHistory) - 1]
  IN  IF newIndex # -1 THEN setCurrentTrack(g2, At(g.allTracks, newIndex)) ELSE g

\* The hasNext and hasPrevious props App passes to the player.
hasNext(g) == Len(g.allTracks) > 0
hasPrevious(g) == getPreviousTrackIndex(g) # -1

\* ------------------------------------- EnhancedAudioPlayer (part_006), ended

toggleRepeatMode(g) == [g EXCEPT !.repeatMode = (@ + 1) % 3]

toggleShuffle(g) ==
  handleShuffleChange([g EXCEPT !.playerIsShuffled = ~@], ~g.playerIsShuffled)

\* handleEnded of the player, passed to useAudioPlayer as onEnd.
onEndMutant(g, r) ==
  IF hasNext(g)
    THEN [handleNextTrack(g, r) EXCEPT !.lastEnded.onNext = TRUE]
    ELSE g
onEnd(g, r) ==
  IF g.repeatMode = 2
    THEN [g EXCEPT !.audioTime = 0, !.audioPaused = FALSE, !.lastEnded.play = TRUE]
  ELSE IF g.repeatMode = 1 /\ hasNext(g)
    THEN [handleNextTrack(g, r) EXCEPT !.lastEnded.onNext = TRUE]
  ELSE IF g.repeatMode = 1 /\ ~hasNext(g) /\ hasPrevious(g)
    THEN [handlePreviousTrack(g) EXCEPT !.lastEnded.onPrevious = TRUE]
  ELSE IF hasNext(g)
    THEN [handleNextTrack(g, r) EXCEPT !.lastEnded.onNext = TRUE]
  ELSE g

\* handleEnded of useAudioPlayer: the listener of the element's 'ended' event.
handleEnded(g, r) ==
  onEnd([g EXCEPT !.isPlaying = FALSE, !.currentTime = 0, !.audioTime = 0,
                  !.lastEnded = [NoEnded EXCEPT !.index = g.currentTrackIndex]], r)

handleTimeUpdate(g) == [g EXCEPT !.currentTime = g.audioTime]

handleLoadedMetadata(g) == [g EXCEPT !.duration = g.audioDuration, !.loading = FALSE]

\* The duration of every track of the model, in the units of audio.currentTime.
TrackDuration == MaxTime

\* audio.currentTime = t as the element performs it: without metadata the value
\* becomes the default playback start position, which currentTime then reads; with
\* metadata the element seeks, and a seek is limited to [0, audio.duration].
SetCurrentTime(g, t) ==
  IF g.audioDuration = 0 THEN t
  ELSE IF t < 0 THEN 0
  ELSE IF t > g.audioDuration THEN g.audioDuration
  ELSE t

\* handleSeek of useAudioPlayer.
handleSeek(g, seekTime) ==
  [g EXCEPT !.currentTime = seekTime, !.audioTime = SetCurrentTime(g, seekTime)]

\* handleVolumeChange of useAudioPlayer, which the player names audioVolumeChange.
audioVolumeChange(g, newVolume) ==
  IF VolumeOK(newVolume)
    THEN [g EXCEPT !.elementVolume = newVolume]
    ELSE [g EXCEPT !.unhandled = TRUE]

\* handleVolumeChange of the player: setVolume(newVolume), audioVolumeChange(newVolume),
\* and the render that follows, in which the url effect runs again because volume is
\* one of its dependencies.
handleVolumeChange(g, newVolume) ==
  UrlEffect(audioVolumeChange(g, newVolume), g.url, newVolume)

\* The range input of the progress bar: min 0, max (duration || 1), step 1.
SliderMax(g) == IF g.duration = 0 THEN 1 ELSE g.duration

\* Runs of the url effect that are over and can no longer act.
Collect(g) ==
  [g EXCEPT !.loads = [l \in LoadId |->
     IF g.loads[l].phase = "done" /\ ~g.loads[l].isMounted THEN NoLoad ELSE g.loads[l]]]

\* The render that follows a change of App's state: the player receives
\* currentTrack.url as its url prop and the url effect runs when it differs.
Render(g) ==
  IF g.currentTrack # g.url THEN UrlEffect(Collect(g), g.currentTrack, g.volume) ELSE g

\* ------------------------------ audio store (part_009), AudioBufferManager

\* The largest maxCacheSize option the constructor is given.
MaxCache == 2

StoreTracks == {TrackA, TrackB, TrackC}

\* The playlists setPlaylist is given; the last one holds a track twice.
StorePlaylists == Playlists \cup {<<TrackA, TrackB, TrackA>>}

\* The loadAudio calls that can wait for fetch and decodeAudioData: the url, and the
\* action whose .then / .catch is chained on the call.
Requests == [url : StoreTracks, by : {"setCurrentTrack", "togglePlay", "setTime"}]

\* The store as created, before initializeAudioManager.  bufferCache lists the keys
\* of the Map in insertion order (a buffer is named by its url); sourceNode names the
\* buffer of the source node (NoUrl: undefined); requests counts the calls of each
\* kind that are waiting; evicted is the key deleted last and did the action of the
\* store invoked last.
NoStore == [audioManager |-> FALSE, maxCacheSize |-> 0,
            currentTrack |-> NoUrl, playlist |-> <<>>, isPlaying |-> FALSE,
            currentTime |-> 0, loading |-> FALSE, error |-> "", repeatMode |-> 0,
            bufferCache |-> <<>>, sourceNode |-> NoUrl, evicted |-> NoUrl,
            did |-> "none",
            requests |-> [r \in Requests |-> 0]]

\* this.bufferCache.has(url)
CacheHas(cache, u) == \E i \in 1..Len(cache) : cache[i] = u

\* Manage cache size, then this.bufferCache.set(url, audioBuffer): a key that is
\* present keeps its place.
CachePutMutant(cache, max, u) ==
  LET kept == IF Len(cache) > max THEN Tail(cache) ELSE cache
  IN  IF CacheHas(kept, u) THEN kept ELSE Append(kept, u)
CachePut(cache, max, u) ==
  LET kept == IF Len(cache) >= max THEN Tail(cache) ELSE cache
  IN  IF CacheHas(kept, u) THEN kept ELSE Append(kept, u)

\* AudioBufferManager.play(buffer): stop the source node there is, start a new one.
managerPlay(s, u) == [s EXCEPT !.sourceNode = u]

\* AudioBufferManager.stop()
managerStop(s) == [s EXCEPT !.sourceNode = NoUrl]

\* The .then chained on the loadAudio call r, run with the buffer of r.url.
Resolved(s, r) ==
  IF r.by = "setCurrentTrack"
    THEN [managerPlay(s, r.url) EXCEPT !.loading = FALSE, !.isPlaying = TRUE]
  ELSE IF r.by = "togglePlay"
    THEN managerPlay(s, r.url)
  ELSE IF s.isPlaying THEN managerPlay(s, r.url) ELSE s

\* The .catch chained on the loadAudio call r.
Rejected(s, r) ==
  IF r.by = "setCurrentTrack"
    THEN [s EXCEPT !.error = "load failed", !.loading = FALSE]
    ELSE [s EXCEPT !.error = "load failed"]

RECURSIVE CountOver(_, _)
CountOver(f, S) ==
  IF S = {} THEN 0
  ELSE LET r == CHOOSE x \in S : TRUE IN f[r] + CountOver(f, S \ {r})

\* The number of loadAudio calls that are waiting.
Waiting(s) == CountOver(s.requests, Requests)

\* audioManager.loadAudio(u).then(...).catch(...), called by action `by`, in the state
\* s its caller leaves.  On a cache hit the promise is already resolved and the .then
\* runs as soon as the caller returns; otherwise the call waits for its fetch.
loadAudio(s, u, by) ==
  IF CacheHas(s.bufferCache, u)
    THEN Resolved(s, [url |-> u, by |-> by])
    ELSE [s EXCEPT !.requests[[url |-> u, by |-> by]] = @ + 1]

\* The fetch and the decoding of a waiting call r are done: the buffer is cached and
\* returned.
loadAudioDone(s, r) ==
  LET full == Len(s.bufferCache) >= s.maxCacheSize
      s1 == [s EXCEPT !.bufferCache = CachePut(@, s.maxCacheSize, r.url),
                      !.evicted = IF full THEN Head(s.bufferCache) ELSE @,
                      !.requests[r] = @ - 1]
  IN  Resolved(s1, r)

\* The fetch or the decoding of a waiting call r fails: loadAudio rethrows.
loadAudioFailed(s, r) ==
  Rejected([s EXCEPT !.requests[r] = @ - 1], r)

\* setCurrentTrack of the store (track is not null).
storeSetCurrentTrack(s, u) ==
  LET s1 == [s EXCEPT !.currentTrack = u, !.loading = TRUE, !.error = ""]
  IN  IF s.audioManager THEN loadAudio(s1, u, "setCurrentTrack") ELSE s1

togglePlay(s) ==
  IF ~s.audioManager \/ s.currentTrack = NoUrl THEN s
  ELSE IF s.isPlaying
    THEN [managerStop(s) EXCEPT !.isPlaying = FALSE]
    ELSE loadAudio([s EXCEPT !.isPlaying = TRUE], s.currentTrack, "togglePlay")

setTime(s, time) ==
  LET s1 == [s EXCEPT !.currentTime = time]
  IN  IF s.audioManager /\ s.currentTrack # NoUrl
        THEN loadAudio(managerStop(s1), s.currentTrack, "setTime")
        ELSE s1

\* playlist.findIndex(track => track.url === currentTrack.url)
currentIndex(s) == FindIndex(s.playlist, s.currentTrack)

nextTrackMutant(s) ==
  IF s.currentTrack = NoUrl \/ Len(s.playlist) = 0 THEN s
  ELSE IF currentIndex(s) + 1 >= Len(s.playlist)
    THEN storeSetCurrentTrack(s, At(s.playlist, 0))
    ELSE storeSetCurrentTrack(s, At(s.playlist, currentIndex(s) + 1))
nextTrack(s) ==
  IF s.currentTrack = NoUrl \/ Len(s.playlist) = 0 THEN s
  ELSE IF currentIndex(s) + 1 >= Len(s.playlist)
    THEN IF s.repeatMode = 1 THEN storeSetCurrentTrack(s, At(s.playlist, 0)) ELSE s
    ELSE storeSetCurrentTrack(s, At(s.playlist, currentIndex(s) + 1))

previousTrack(s) ==
  IF s.currentTrack = NoUrl \/ Len(s.playlist) = 0 THEN s
  ELSE IF currentIndex(s) - 1 >= 0
    THEN storeSetCurrentTrack(s, At(s.playlist, currentIndex(s) - 1))
    ELSE s

\* Whether the loadAudio call an action makes for u can be followed.
CanLoad(s, u) == CacheHas(s.bufferCache, u) \/ Waiting(s) < MaxLoads

\* ---------------------------- EnhancedAudioPlayer (part_006), the hooks wired

\* A run of the url effect that has been superseded was aborted by the detach of its
\* successor and returns at its next isMounted test: it is not followed further.
Forget(g) ==
  [g EXCEPT !.loads = [l \in LoadId |-> IF l = g.cur THEN g.loads[l] ELSE NoLoad]]

\* The cleanup of the unmount effect, run with the safeResetAudioContext of closure
\* cl; ref tells whether audioRef.current is still the element.
UnmountCleanup(g, cl, ref) ==
  LET g1 == safeResetAudioContext(g, cl)
  IN  IF ref THEN DetachSource(g1) ELSE g1

\* The render that follows a task, and the renders its effects cause in turn, with
\* the url prop u.  safeResetAudioContext is a new function whenever the graph state
\* differs from the one the last render saw: the url effect and the unmount effect
\* depend on it, the analysis effect on analyser and isPlaying.  Cleanups run first
\* (with the closures of the last render), then the bodies.
RECURSIVE Commit(_, _, _, _)
Commit(g, u, d, throws) ==
  LET now == [cl |-> Closure(g), playing |-> g.isPlaying]
      old == g.rendered
      resetIsNew == now.cl # old.cl
      urlRuns == u # g.url \/ resetIsNew
      analysisRuns == now.cl.an # old.cl.an \/ now.playing # old.playing
  IN  IF ~g.mounted \/ (~urlRuns /\ ~analysisRuns) THEN g
      ELSE
        LET g1 == IF resetIsNew THEN UnmountCleanup(g, old.cl, TRUE) ELSE g
            g2 == IF urlRuns THEN Forget(RunUrlEffect(g1, u, g.volume, now.cl)) ELSE g1
            g3 == IF analysisRuns
                    THEN [AnalysisEffect(g2, now.cl.an, now.playing, d, throws)
                            EXCEPT !.analyser = g2.analyser]
                    ELSE g2
        IN  Commit([g3 EXCEPT !.rendered = now], u, d, throws)

\* handlePlayPause after its createAudioContext: pause, or give the element its source
\* when it has none and call play().
handlePlayPause(g) ==
  IF g.isPlaying
    THEN [g EXCEPT !.audioPaused = TRUE, !.isPlaying = FALSE]
  ELSE IF g.audioSrc = NoUrl /\ g.url = NoUrl
    THEN [g EXCEPT !.error = [text |-> "No audio source available", detail |-> ""]]
  ELSE
    LET g1 == IF g.audioSrc = NoUrl
                THEN SettlePlays([g EXCEPT !.audioSrc = sanitizeUrl(g.url),
                                           !.audioPaused = TRUE, !.mediaError = FALSE,
                                           !.audioTime = 0, !.audioDuration = 0],
                                 "AbortError")
                ELSE g
    IN  [g1 EXCEPT !.press = IF g1.mediaError THEN "NotSupportedError" ELSE "open"]

\* The promise of handlePlayPause's play() settles.
pressSettled(g, out) ==
  IF out = "ok"
    THEN [g EXCEPT !.isPlaying = TRUE, !.error = NoError, !.audioPaused = FALSE,
                   !.press = "none"]
    ELSE [g EXCEPT !.isPlaying = FALSE, !.press = "none",
                   !.error = [text |-> "Playback error. Please try again.", detail |-> ""]]

\* The player is removed: the cleanups of the url effect, of the analysis effect and
\* of the unmount effect.  Callbacks that arrive later find isMounted false.
unmount(g, ref) ==
  LET g1 == IF g.cur # 0
              THEN [g EXCEPT !.loads[g.cur].isMounted = FALSE, !.cur = 0]
              ELSE g
      g2 == AnalysisCleanup(g1)
      g3 == UnmountCleanup(g2, g.rendered.cl, ref)
  IN  [g3 EXCEPT !.mounted = FALSE, !.press = "none", !.audioPaused = TRUE]

\* ------------------------------- the single-file player (part_008), visualization

\* The first render: no graph, not playing.
NoRender == [cl |-> [ctx |-> NoCtx, src |-> NoCtx, an |-> NoCtx], playing |-> FALSE]

maxRetries == 2

\* The run of the visualization effect made at mount: not playing, nothing done.
\* retryCount is the run's counter, timers the 300 ms timers it has pending, call
\* its createAudioContext call (0: none), seen the dependencies it ran with.
NoViz == [retryCount |-> 0, timers |-> 0, call |-> 0,
          seen |-> <<FALSE, [ctx |-> NoCtx, src |-> NoCtx, an |-> NoCtx]>>]

\* The url prop of the single-file player.
VizUrl == TrackA

\* audioContext && audioSource && analyser && audioContext.state !== 'closed'
GoodGraph(g, cl) ==
  cl.ctx # NoCtx /\ cl.src # NoCtx /\ cl.an # NoCtx /\ g.ctxState[cl.ctx] # "closed"

\* What createAudioContext() returns to its caller: a promise, on both of its paths.
CreateReturns == "Promise<boolean>"

\* !v as JavaScript evaluates it: an object, and so a promise, is not falsy.
Falsy(v) == v \in {"false", "undefined", "null"}

\* if (!success && retryCount < maxRetries) { retryCount++; setTimeout(..., 300) }
AfterCreate(v, success) ==
  IF Falsy(success) /\ v.retryCount < maxRetries
    THEN [v EXCEPT !.retryCount = @ + 1, !.timers = @ + 1]
    ELSE v

\* ------------------------------------------------------------- operations

TypeOK ==
  /\ ctxState \in [CtxId -> {"none", "suspended", "running", "closed"}]
  /\ closing \in [CtxId -> BOOLEAN]
  /\ closeThen \subseteq CtxId
  /\ audioContext \in CtxId \cup {NoCtx}
  /\ analyser \in CtxId \cup {NoCtx}
  /\ audioSource \in CtxId \cup {NoCtx}
  /\ boundTo \in CtxId \cup {NoCtx}
  /\ Len(hist) <= MaxOps
  /\ isPlaying \in BOOLEAN
  /\ loading \in BOOLEAN
  /\ cur \in LoadId \cup {0}
  /\ bassValue \in 0..800
  /\ frames \subseteq 1..(MaxFrames + 1)
  /\ repeatMode \in 0..2
  /\ currentTime \in 0..MaxTime
  /\ audioTime \in 0..MaxTime
  /\ allTracks \in Playlists \cup {<<>>}
  /\ currentTrack \in {NoUrl, TrackA, TrackB, TrackC, FileUrl}
  /\ currentTrackIndex \in -1..(Len(allTracks) - 1)
  /\ Len(shuffleHistory) <= MaxHist
  /\ \A i \in 1..Len(shuffleHistory) : shuffleHistory[i] \in 0..(Len(allTracks) - 1)
  /\ shuffleHistoryIndex \in -1..(Len(shuffleHistory) - 1)

\* The state after the first render of the player, before any effect has run.
Mounted ==
  /\ ctxState = [c \in CtxId |-> "none"]
  /\ closing = [c \in CtxId |-> FALSE]
  /\ closeCalls = [c \in CtxId |-> 0]
  /\ closeThen = {}
  /\ srcEdge = [c \in CtxId |-> FALSE]
  /\ anEdge = [c \in CtxId |-> FALSE]
  /\ disconnectCalls = 0
  /\ boundTo = NoCtx
  /\ audioPaused = TRUE
  /\ audioContext = NoCtx
  /\ analyser = NoCtx
  /\ audioSource = NoCtx
  /\ animationFrameRef = 0
  /\ frames = {}
  /\ url = NoUrl
  /\ volume = 8
  /\ isPlaying = FALSE
  /\ loading = TRUE
  /\ error = NoError
  /\ loads = [l \in LoadId |-> NoLoad]
  /\ cur = 0
  /\ mediaError = FALSE
  /\ bassValue = 0
  /\ loop = FALSE
  /\ nextHandle = 1
  /\ loopAnalyser = NoCtx
  /\ currentTime = 0
  /\ audioTime = 0
  /\ repeatMode = 0
  /\ playerIsShuffled = FALSE
  /\ lastEnded = NoEnded
  /\ allTracks = <<>>
  /\ currentTrack = NoUrl
  /\ currentTrackIndex = -1
  /\ isShuffled = FALSE
  /\ shuffleHistory = <<>>
  /\ shuffleHistoryIndex = -1
  /\ duration = 0
  /\ audioDuration = 0
  /\ elementVolume = 10
  /\ press = "none"
  /\ mounted = TRUE
  /\ fault = "none"
  /\ unhandled = FALSE
  /\ lastTick = "none"
  /\ viz = NoViz
  /\ rendered = NoRender
  /\ store = NoStore
  /\ calls = [k \in CallId |-> NoCall]
  /\ hist = <<>>

\* useAudioContext on an element that may already have a source.
GInit == Mounted /\ audioSrc \in Urls

\* A createNewContext run of call k: the choices the browser makes are drawn here.
RunCreateNewContext(g, k, call) ==
  /\ Cardinality(Unused(g.ctxState)) >= 2
  /\ \E s0 \in FreshStates, s1 \in FreshStates :
       \E o1 \in WrapOutcomes(g), o2 \in WrapOutcomes(g) :
         LET out == createNewContext(g, call, s0, o1, s1, o2)
         IN  /\ SetG(out[1])
             /\ calls' = [calls EXCEPT ![k] = out[2]]

\* createAudioContext(url), invoked from the current render.
CallCreate(u) ==
  /\ Len(hist) < MaxOps
  /\ LET k  == Len(hist) + 1
         cl == Closure(G)
         c0 == [NoCall EXCEPT !.cl = cl, !.url = u]
     IN  IF cl.ctx # NoCtx \/ cl.src # NoCtx \/ cl.an # NoCtx
           THEN /\ SetG(safeResetAudioContext(G, cl))
                /\ calls' = [calls EXCEPT ![k] = [c0 EXCEPT !.phase = "timer"]]
           ELSE RunCreateNewContext(G, k, c0)
  /\ hist' = Append(hist, "create")

\* The 100 ms timer of createAudioContext fires.
CreateTimer(k) ==
  /\ calls[k].phase = "timer"
  /\ RunCreateNewContext(G, k, calls[k])
  /\ UNCHANGED hist

\* newAudioContext.resume() settles; the call then returns true either way.
ResumeSettled(k, ok) ==
  /\ calls[k].phase = "resume"
  /\ LET n == calls[k].newCtx
     IN  SetG(IF ok /\ ctxState[n] = "suspended" /\ ~closing[n]
                THEN [G EXCEPT !.ctxState[n] = "running"]
                ELSE G)
  /\ calls' = [calls EXCEPT ![k].phase = "done", ![k].result = "true"]
  /\ UNCHANGED hist

\* The close promise of context c resolves; safeReset's .then runs with it.
CloseResolved(c) ==
  /\ closing[c]
  /\ SetG([G EXCEPT !.ctxState[c] = "closed",
                    !.closing[c] = FALSE,
                    !.closeThen = @ \ {c},
                    !.audioContext = IF c \in closeThen THEN NoCtx ELSE @])
  /\ UNCHANGED <<calls, hist>>

\* safeResetAudioContext(), invoked from the current render.
CallSafeReset ==
  /\ Len(hist) < MaxOps
  /\ SetG(safeResetAudioContext(G, Closure(G)))
  /\ hist' = Append(hist, "safeReset")
  /\ UNCHANGED calls

\* resetAudioContext(), invoked from the current render.
CallReset ==
  /\ Len(hist) < MaxOps
  /\ SetG(resetAudioContext(G, Closure(G)))
  /\ hist' = Append(hist, "reset")
  /\ UNCHANGED calls

GNext ==
  \/ \E u \in Urls : CallCreate(u)
  \/ \E k \in CallId : CreateTimer(k)
  \/ \E k \in CallId : \E ok \in BOOLEAN : ResumeSettled(k, ok)
  \/ \E c \in CtxId : CloseResolved(c)
  \/ CallSafeReset
  \/ CallReset

SpecGraph == GInit /\ [][GNext]_vars

\* From the start, every browser call of kind f throws (or is rejected).
BrowserFails(f) ==
  /\ fault = "none" /\ hist = <<>>
  /\ SetG([G EXCEPT !.fault = f])
  /\ UNCHANGED <<calls, hist>>

\* The graph manager in a browser in which one kind of call fails.
FaultsNext ==
  \/ GNext
  \/ \E f \in Faults : BrowserFails(f)

\* The element has no source yet, so that createNewContext has to assign it.
FaultsInit == Mounted /\ audioSrc = NoUrl

SpecFaults == FaultsInit /\ [][FaultsNext]_vars


\* ---------------------------------------------- useAudioPlayer, operations

Harness == UNCHANGED <<calls, hist>>

\* The url prop changes (a track is selected): the url effect runs again.
ChangeUrl(u) ==
  /\ u # url
  /\ u = NoUrl \/ FreeLoads(G) # {}
  /\ SetG(UrlEffect(G, u, volume))
  /\ Harness

\* The volume prop changes: volume is a dependency of the url effect.
ChangeVolume(v) ==
  /\ v # volume
  /\ url = NoUrl \/ FreeLoads(G) # {}
  /\ SetG(UrlEffect(G, url, v))
  /\ Harness

\* The safeResetAudioContext prop is a new function: it is a dependency too.
ChangeSafeReset ==
  /\ url = NoUrl \/ FreeLoads(G) # {}
  /\ SetG(UrlEffect(G, url, volume))
  /\ Harness

LoadTimer(l) ==
  /\ loads[l].phase = "timer" /\ loads[l].timer = LoadDelay
  /\ SetG(loadTimer(G, l))
  /\ Harness

PlaySettled(l) ==
  /\ loads[l].phase = "play"
  /\ \E out \in PlayOutcomes(loads[l].fate) : SetG(playSettled(G, l, out))
  /\ Harness

RetryTimer(l) ==
  /\ loads[l].phase = "timer" /\ loads[l].timer = RetryDelay
  /\ SetG(retryTimer(G, l))
  /\ Harness

RetrySettled(l) ==
  /\ loads[l].phase = "retryPlay"
  /\ \E out \in PlayOutcomes(loads[l].fate) : SetG(retrySettled(G, l, out))
  /\ Harness

AudioError ==
  /\ audioSrc # NoUrl /\ ~mediaError
  /\ SetG(audioError(G))
  /\ Harness

PInit == Mounted /\ audioSrc = NoUrl

PNext ==
  \/ \E u \in Urls : ChangeUrl(u)
  \/ \E v \in {5, 8} : ChangeVolume(v)
  \/ ChangeSafeReset
  \/ \E l \in LoadId : LoadTimer(l)
  \/ \E l \in LoadId : PlaySettled(l)
  \/ \E l \in LoadId : RetryTimer(l)
  \/ \E l \in LoadId : RetrySettled(l)
  \/ AudioError

SpecPlayer == PInit /\ [][PNext]_vars

\* -------------------------------------------- useAudioAnalysis, operations

\* The isPlaying prop changes: the analysis effect runs again.
SetPlaying(b) ==
  /\ b # isPlaying
  /\ \E d \in Snapshots, throws \in BOOLEAN :
       /\ throws \/ nextHandle <= MaxFrames
       /\ SetG(AnalysisEffect(G, analyser, b, d, throws))
  /\ Harness

\* The analyser prop changes: the analysis effect runs again.
SetAnalyser(a) ==
  /\ a # analyser
  /\ \E d \in Snapshots, throws \in BOOLEAN :
       /\ throws \/ nextHandle <= MaxFrames
       /\ SetG(AnalysisEffect(G, a, isPlaying, d, throws))
  /\ Harness

\* The animation frame h runs analyzeBass.
Tick(h) ==
  /\ h \in frames
  /\ \E d \in Snapshots, throws \in BOOLEAN :
       /\ throws \/ nextHandle <= MaxFrames
       /\ SetG(analyzeBass([G EXCEPT !.frames = @ \ {h}], d, throws))
  /\ Harness

\* A reset of the graph manager cancels the frame through the shared ref.
ResetCancelsFrame ==
  /\ animationFrameRef # 0
  /\ SetG(CancelFrame(G))
  /\ Harness

AInit == Mounted /\ audioSrc = NoUrl

ANext ==
  \/ \E b \in BOOLEAN : SetPlaying(b)
  \/ \E a \in CtxId \cup {NoCtx} : SetAnalyser(a)
  \/ \E h \in 1..MaxFrames : Tick(h)
  \/ ResetCancelsFrame

SpecAnalysis == AInit /\ [][ANext]_vars

\* ------------------------------------------------------ App, operations

\* The last three operations invoked on App, for the claims that speak of them.
Logged(op) ==
  hist' = (IF Len(hist) < 3 THEN Append(hist, op) ELSE <<hist[2], hist[3], op>>)

\* The values Math.random can select in this state (one value when it is not drawn).
Picks(g) == IF PicksRandom(g) THEN availableIndexes(g) ELSE {-1}

\* handleNextTrack appends to the history in this state.
Appends(g) == g.isShuffled /\ ~(g.shuffleHistoryIndex < Len(g.shuffleHistory) - 1)

\* handleTracksLoaded, when the selector has scanned the folder.
handleTracksLoaded(g, tracks) ==
  [g EXCEPT !.allTracks = tracks,
            !.currentTrackIndex = IF g.currentTrack # NoUrl
                                    THEN FindIndex(tracks, g.currentTrack) ELSE @]

\* App alone: its handlers as the selectors and the player invoke them.  What the
\* player does with the url it is handed is the subject of SpecEnded.
OnTracksLoaded(tracks) ==
  /\ allTracks = <<>>
  /\ SetG(handleTracksLoaded(G, tracks))
  /\ Logged("tracks")
  /\ UNCHANGED calls

OnTrackSelect(i) ==
  /\ i < Len(allTracks)
  /\ isShuffled => Len(shuffleHistory) < MaxHist
  /\ SetG(handleTrackSelect(G, At(allTracks, i)))
  /\ Logged("select")
  /\ UNCHANGED calls

OnFileSelect ==
  /\ SetG(handleLocalFileSelect(G, FileUrl))
  /\ Logged("file")
  /\ UNCHANGED calls

OnShuffleChange ==
  /\ currentTrack # NoUrl
  /\ SetG(toggleShuffle(G))
  /\ Logged("shuffle")
  /\ UNCHANGED calls

OnNext ==
  /\ currentTrack # NoUrl /\ hasNext(G)
  /\ Appends(G) => Len(shuffleHistory) < MaxHist
  /\ \E r \in Picks(G) :
       /\ SetG(handleNextTrack(G, r))
       /\ Logged(IF getNextTrackIndex(G, r) # -1 THEN "next" ELSE "none")
  /\ UNCHANGED calls

OnPrevious ==
  /\ currentTrack # NoUrl /\ hasPrevious(G)
  /\ SetG(handlePreviousTrack(G))
  /\ Logged("previous")
  /\ UNCHANGED calls

PlaylistInit == Mounted /\ audioSrc = NoUrl

PlaylistNext ==
  \/ \E t \in Playlists : OnTracksLoaded(t)
  \/ \E i \in 0..2 : OnTrackSelect(i)
  \/ OnFileSelect
  \/ OnShuffleChange
  \/ OnNext
  \/ OnPrevious

SpecPlaylist == PlaylistInit /\ [][PlaylistNext]_vars

\* ------------------------------------------- App and player, operations

\* The listener changes the track only when no run of the url effect other than the
\* current one is still pending, so that a superseded run meets one successor.
CanRender(g) ==
  \/ g.currentTrack = g.url
  \/ \A l \in LoadId : l # g.cur => Collect(g).loads[l].phase = "none"

\* The folder is scanned.
TracksLoaded(tracks) ==
  /\ allTracks = <<>>
  /\ SetG(handleTracksLoaded(G, tracks))
  /\ Harness

\* A track of the list is clicked.
TrackSelect(i) ==
  /\ i < Len(allTracks)
  /\ LET g == handleTrackSelect(G, At(allTracks, i))
     IN  CanRender(g) /\ SetG(Render(g))
  /\ Harness

\* The repeat button of the player.
ToggleRepeat ==
  /\ currentTrack # NoUrl
  /\ SetG(toggleRepeatMode(G))
  /\ Harness

\* The next button of the player.
NextClick ==
  /\ currentTrack # NoUrl /\ hasNext(G)
  /\ \E r \in Picks(G) :
       LET g == handleNextTrack(G, r)
       IN  CanRender(g) /\ SetG(Render(g))
  /\ Harness

\* The previous button of the player.
PreviousClick ==
  /\ currentTrack # NoUrl /\ hasPrevious(G)
  /\ LET g == handlePreviousTrack(G)
     IN  CanRender(g) /\ SetG(Render(g))
  /\ Harness

\* The element plays on by one unit and reports it with 'timeupdate'.
Advance ==
  /\ ~audioPaused /\ audioSrc # NoUrl /\ audioTime < MaxTime
  /\ SetG(handleTimeUpdate([G EXCEPT !.audioTime = @ + 1]))
  /\ Harness

\* The 'timeupdate' the element fires after its position was reset.
TimeUpdate ==
  /\ currentTime # audioTime
  /\ SetG(handleTimeUpdate(G))
  /\ Harness

\* The element has the metadata of its resource.
LoadedMetadata ==
  /\ audioSrc # NoUrl /\ ~mediaError /\ audioDuration = 0
  /\ SetG(handleLoadedMetadata([G EXCEPT !.audioDuration = TrackDuration]))
  /\ Harness

\* The element reaches the end of its resource: it pauses and fires 'ended'.
Ended ==
  /\ ~audioPaused /\ audioSrc # NoUrl /\ audioTime = MaxTime
  /\ \E r \in Picks(G) :
       LET g == handleEnded([G EXCEPT !.audioPaused = TRUE], r)
       IN  CanRender(g) /\ SetG(Render(g))
  /\ Harness

EndedInit == Mounted /\ audioSrc = NoUrl

\* The listener plays tracks in list order: shuffle stays off, and the audio graph
\* is never built (play/pause is not pressed).
EndedNext ==
  \/ \E t \in Playlists : TracksLoaded(t)
  \/ \E i \in 0..2 : TrackSelect(i)
  \/ ToggleRepeat
  \/ NextClick
  \/ PreviousClick
  \/ Advance
  \/ TimeUpdate
  \/ LoadedMetadata
  \/ Ended
  \/ \E l \in LoadId : LoadTimer(l)
  \/ \E l \in LoadId : PlaySettled(l)
  \/ \E l \in LoadId : RetryTimer(l)
  \/ \E l \in LoadId : RetrySettled(l)

SpecEnded == EndedInit /\ [][EndedNext]_vars

\* --------------------------- the visualization effect, operations

\* Playback starts or stops (the play() promise, pause or 'ended' of that player).
VizPlaying(b) ==
  /\ b # isPlaying
  /\ SetG([G EXCEPT !.isPlaying = b])
  /\ UNCHANGED <<calls, hist>>

\* The url effects of that player run safeResetAudioContext.
VizSafeReset ==
  /\ Closure(G) # NoCall.cl
  /\ SetG(safeResetAudioContext(G, Closure(G)))
  /\ UNCHANGED <<calls, hist>>

\* initializeAudioVisualization, first attempt of a run of the effect on state g.
InitializeAudioVisualization(g) ==
  LET cl == Closure(g)
      k  == Len(hist) + 1
  IN  IF GoodGraph(g, cl)
        THEN /\ \E ok \in BOOLEAN :
                  SetG(IF ok /\ g.ctxState[cl.ctx] = "suspended" /\ ~g.closing[cl.ctx]
                         THEN [g EXCEPT !.ctxState[cl.ctx] = "running"]
                         ELSE g)
             /\ UNCHANGED <<calls, hist>>
        ELSE /\ Len(hist) < MaxOps
             /\ LET g1 == [g EXCEPT !.viz = [AfterCreate(@, CreateReturns)
                                               EXCEPT !.call = k]]
                     c0 == [NoCall EXCEPT !.cl = cl, !.url = sanitizeUrl(VizUrl)]
                 IN  IF cl # NoCall.cl
                       THEN /\ SetG(safeResetAudioContext(g1, cl))
                            /\ calls' = [calls EXCEPT ![k] = [c0 EXCEPT !.phase = "timer"]]
                       ELSE RunCreateNewContext(g1, k, c0)
             /\ hist' = Append(hist, "create")

\* The visualization effect runs again because isPlaying or the graph state (and with
\* it createAudioContext) has changed: the cleanup of the last run, then the body.
VizEffect ==
  /\ <<isPlaying, Closure(G)>> # viz.seen
  /\ LET g0 == IF viz.seen[1] THEN CancelFrame(G) ELSE G
         g1 == [g0 EXCEPT !.viz = [NoViz EXCEPT !.timers = viz.timers,
                                               !.seen = <<isPlaying, Closure(G)>>]]
     IN  IF isPlaying
           THEN InitializeAudioVisualization(g1)
           ELSE SetG(g1) /\ UNCHANGED <<calls, hist>>

VizInit == Mounted /\ audioSrc = sanitizeUrl(VizUrl)

\* No action stands for the 300 ms timer of the effect: no state arms it.
VizNext ==
  \/ \E b \in BOOLEAN : VizPlaying(b)
  \/ VizSafeReset
  \/ VizEffect
  \/ \E k \in CallId : CreateTimer(k)
  \/ \E k \in CallId : \E ok \in BOOLEAN : ResumeSettled(k, ok)
  \/ \E c \in CtxId : CloseResolved(c)

SpecVisual == VizInit /\ [][VizNext]_vars

\* --------------------------------------- the hooks wired, operations

\* The samples an analysis effect started by a render would read.
WiredSnapshots == {[i \in Bins |-> 128]}

\* The state g a task has produced is rendered.
Rendered(g) ==
  \E d \in WiredSnapshots, throws \in BOOLEAN :
    /\ throws \/ nextHandle <= MaxFrames
    /\ SetG(Commit(g, g.url, d, throws))

\* App shows another track: the url prop of the player changes.
WiredChangeUrl(u) ==
  /\ mounted /\ u # url
  /\ Len(hist) < MaxOps
  /\ \E d \in WiredSnapshots, throws \in BOOLEAN :
       /\ throws \/ nextHandle <= MaxFrames
       /\ SetG(Commit(G, u, d, throws))
  /\ hist' = Append(hist, "url")
  /\ UNCHANGED calls

\* The play/pause button.  createAudioContext(url) is called first when the player is
\* paused and has no context or a closed one.  The listener's operations (track
\* changes and presses) are logged in hist, which bounds them.
WiredPlayPause ==
  /\ mounted /\ url # NoUrl /\ press = "none"
  /\ Len(hist) < MaxOps
  /\ LET cl == Closure(G)
         k  == Len(hist) + 1
         c0 == [NoCall EXCEPT !.cl = cl, !.url = url]
     IN  IF ~isPlaying /\ (audioContext = NoCtx \/ ctxState[audioContext] = "closed")
           THEN /\ hist' = Append(hist, "create")
                /\ IF cl # NoCall.cl
                     THEN /\ calls' = [calls EXCEPT ![k] = [c0 EXCEPT !.phase = "timer"]]
                          /\ Rendered(handlePlayPause(safeResetAudioContext(G, cl)))
                     ELSE /\ Cardinality(Unused(ctxState)) >= 2
                          /\ \E s0 \in FreshStates, s1 \in FreshStates :
                               \E o1 \in WrapOutcomes(G), o2 \in WrapOutcomes(G) :
                                 LET out == createNewContext(G, c0, s0, o1, s1, o2)
                                 IN  /\ calls' = [calls EXCEPT ![k] = out[2]]
                                     /\ Rendered(handlePlayPause(out[1]))
           ELSE /\ Rendered(handlePlayPause(G))
                /\ hist' = Append(hist, "press")
                /\ UNCHANGED calls

PressSettled ==
  /\ mounted /\ press # "none"
  /\ \E out \in PlayOutcomes(press) : Rendered(pressSettled(G, out))
  /\ Harness

WiredLoadTimer(l) ==
  /\ mounted /\ loads[l].phase = "timer" /\ loads[l].timer = LoadDelay
  /\ Rendered(loadTimer(G, l))
  /\ Harness

WiredPlaySettled(l) ==
  /\ mounted /\ loads[l].phase = "play"
  /\ \E out \in PlayOutcomes(loads[l].fate) : Rendered(playSettled(G, l, out))
  /\ Harness

WiredRetryTimer(l) ==
  /\ mounted /\ loads[l].phase = "timer" /\ loads[l].timer = RetryDelay
  /\ Rendered(retryTimer(G, l))
  /\ Harness

WiredRetrySettled(l) ==
  /\ mounted /\ loads[l].phase = "retryPlay"
  /\ \E out \in PlayOutcomes(loads[l].fate) : Rendered(retrySettled(G, l, out))
  /\ Harness

WiredLoadedMetadata ==
  /\ mounted /\ audioSrc # NoUrl /\ ~mediaError /\ audioDuration = 0
  /\ Rendered(handleLoadedMetadata([G EXCEPT !.audioDuration = TrackDuration]))
  /\ Harness

\* The close promise of context c resolves; safeReset's .then runs with it.
WiredCloseResolved(c) ==
  /\ closing[c]
  /\ Rendered([G EXCEPT !.ctxState[c] = "closed",
                        !.closing[c] = FALSE,
                        !.closeThen = @ \ {c},
                        !.audioContext = IF c \in closeThen THEN NoCtx ELSE @])
  /\ Harness

\* The player is removed from the page.  Whether audioRef.current still holds the
\* element when the cleanup runs depends on the React version of the build.
Unmount ==
  /\ mounted /\ url # NoUrl
  /\ \E ref \in BOOLEAN : SetG(unmount(G, ref))
  /\ Harness

WiredInit == Mounted /\ audioSrc = NoUrl

\* No step of createAudioContext's 100 ms timer and no animation frame: no state of
\* the wired player arms one (WiredNoTimerNoFrame).
WiredNext ==
  \/ \E u \in TrackUrls : WiredChangeUrl(u)
  \/ WiredPlayPause
  \/ PressSettled
  \/ \E l \in LoadId : WiredLoadTimer(l)
  \/ \E l \in LoadId : WiredPlaySettled(l)
  \/ \E l \in LoadId : WiredRetryTimer(l)
  \/ \E l \in LoadId : WiredRetrySettled(l)
  \/ WiredLoadedMetadata
  \/ \E k \in CallId : \E ok \in BOOLEAN : ResumeSettled(k, ok)
  \/ \E c \in CtxId : WiredCloseResolved(c)
  \/ Unmount

SpecWired == WiredInit /\ [][WiredNext]_vars

\* ------------------------------------------------ audio store, operations

SetStore(s) == SetG([G EXCEPT !.store = s]) /\ Harness

\* Action `op` of the store is invoked and leaves the store as s.
Invoke(op, s) == SetStore([s EXCEPT !.did = op])

\* initializeAudioManager; m is the maxCacheSize option of the manager.
InitializeAudioManager(m) ==
  /\ ~store.audioManager
  /\ Invoke("initializeAudioManager", [store EXCEPT !.audioManager = TRUE, !.maxCacheSize = m])

StoreSetPlaylist(tracks) ==
  /\ tracks # store.playlist
  /\ Invoke("setPlaylist", [store EXCEPT !.playlist = tracks])

StoreSetCurrentTrack(u) ==
  /\ store.audioManager /\ CanLoad(store, u)
  /\ Invoke("setCurrentTrack", storeSetCurrentTrack(store, u))

StoreTogglePlay ==
  /\ store.audioManager /\ store.currentTrack # NoUrl
  /\ CanLoad(store, store.currentTrack)
  /\ Invoke("togglePlay", togglePlay(store))

StoreSetTime(t) ==
  /\ store.audioManager /\ store.currentTrack # NoUrl
  /\ t # store.currentTime
  /\ CanLoad(store, store.currentTrack)
  /\ Invoke("setTime", setTime(store, t))

StoreSetRepeatMode(mode) ==
  /\ mode # store.repeatMode
  /\ Invoke("setRepeatMode", [store EXCEPT !.repeatMode = mode])

StoreNextTrack ==
  /\ store.audioManager /\ store.currentTrack # NoUrl /\ store.playlist # <<>>
  /\ Waiting(store) < MaxLoads
  /\ Invoke("nextTrack", nextTrack(store))

StorePreviousTrack ==
  /\ store.audioManager /\ store.currentTrack # NoUrl /\ store.playlist # <<>>
  /\ Waiting(store) < MaxLoads
  /\ Invoke("previousTrack", previousTrack(store))

\* The fetch of a waiting call r completes.
LoadAudioDone(r) ==
  /\ store.requests[r] > 0
  /\ SetStore(loadAudioDone(store, r))

\* The fetch of a waiting call r fails.
LoadAudioFailed(r) ==
  /\ store.requests[r] > 0
  /\ SetStore(loadAudioFailed(store, r))

StoreInit == Mounted /\ audioSrc = NoUrl

\* Playback of the store: tracks are set, played, paused and sought while loads are
\* under way.
StoreNext ==
  \/ \E m \in 1..MaxCache : InitializeAudioManager(m)
  \/ \E u \in StoreTracks : StoreSetCurrentTrack(u)
  \/ StoreTogglePlay
  \/ \E t \in 0..MaxTime : StoreSetTime(t)
  \/ \E r \in Requests : LoadAudioDone(r)
  \/ \E r \in Requests : LoadAudioFailed(r)

SpecStore == StoreInit /\ [][StoreNext]_vars

\* The buffer cache of the manager: tracks are asked for while earlier loads are
\* still waiting, and the loads complete or fail in any order.
CacheNext ==
  \/ \E m \in 1..MaxCache : InitializeAudioManager(m)
  \/ \E u \in StoreTracks : StoreSetCurrentTrack(u)
  \/ \E r \in Requests : LoadAudioDone(r)
  \/ \E r \in Requests : LoadAudioFailed(r)

SpecCache == StoreInit /\ [][CacheNext]_vars

\* The playlist of the store: a list is set, its tracks are walked through while
\* their buffers arrive.
TracksNext ==
  \/ \E m \in 1..MaxCache : InitializeAudioManager(m)
  \/ \E p \in StorePlaylists : StoreSetPlaylist(p)
  \/ \E u \in StoreTracks : StoreSetCurrentTrack(u)
  \/ \E mode \in 0..2 : StoreSetRepeatMode(mode)
  \/ StoreNextTrack
  \/ StorePreviousTrack
  \/ \E r \in Requests : LoadAudioDone(r)

SpecTracks == StoreInit /\ [][TracksNext]_vars

\* ------------------------------------------ seek and volume, operations

\* The values handed to the volume setter: the slider's and the mute button's, and
\* two outside [0, 1], which the setter's type (number) admits.
VolumeInputs == {-5, 0, 8, 15}

\* The progress slider is moved to t.
Seek(t) ==
  /\ url # NoUrl
  /\ t <= SliderMax(G)
  /\ SetG(handleSeek(G, t))
  /\ Harness

\* The volume setter of the player is called with v.
VolumeChange(v) ==
  /\ v # volume
  /\ url = NoUrl \/ FreeLoads(G) # {}
  /\ SetG(handleVolumeChange(G, v))
  /\ Harness

ControlsInit == Mounted /\ audioSrc = NoUrl

ControlsNext ==
  \/ \E u \in Urls : ChangeUrl(u)
  \/ \E t \in 0..TrackDuration : Seek(t)
  \/ \E v \in VolumeInputs : VolumeChange(v)
  \/ Advance
  \/ LoadedMetadata
  \/ \E l \in LoadId : LoadTimer(l)
  \/ \E l \in LoadId : PlaySettled(l)
  \/ \E l \in LoadId : RetryTimer(l)
  \/ \E l \in LoadId : RetrySettled(l)

SpecControls == ControlsInit /\ [][ControlsNext]_vars

\* ------------------------------------------------------ claims C1 .. C6

LiveContexts == Live(ctxState)

\* C1: at every instant at most one AudioContext whose state is not 'closed' exists.
C1_AtMostOneLiveContext == Cardinality(LiveContexts) <= 1

\* C2: when createAudioContext found a context and reset it, createNewContext builds
\* the new AudioContext only once the close() of that reset has resolved, that is,
\* when the context of the call's closure is closed.
C2_CreateAfterResetResolved ==
  [][\A k \in CallId :
       (/\ calls[k].phase = "timer"
        /\ calls'[k].newCtx # NoCtx
        /\ calls[k].cl.ctx # NoCtx)
       => ctxState[calls[k].cl.ctx] = "closed"]_vars

\* C3: on a wrap conflict the existing context (the one the call sees) is closed when
\* the wrap is retried, the wrap is tried at most twice in a call, and a call whose
\* retry failed has resolved false.
C3_CloseThenRetryOnce ==
  /\ [][\A k \in CallId :
          (calls[k].wraps < 2 /\ calls'[k].wraps = 2 /\ calls'[k].cl.ctx # NoCtx)
          => ctxState'[calls'[k].cl.ctx] = "closed"]_vars
  /\ [](\A k \in CallId :
          /\ calls[k].wraps <= 2
          /\ (calls[k].wraps = 2 => calls[k].phase = "done"
                                    /\ calls[k].result \in {"true", "false"}))

\* C4: createAudioContext twice in succession, no reset in between: when the second
\* call meets the wrap conflict it succeeds after its one retry, and once it is done
\* and every close has resolved exactly one AudioContext is open.
C4_SecondCreateLeavesOneContext ==
  (/\ hist = <<"create", "create">>
   /\ calls[1].result = "true"
   /\ calls[2].phase = "done"
   /\ calls[2].wraps = 2
   /\ \A c \in CtxId : ~closing[c])
  => (calls[2].result = "true" /\ Cardinality(LiveContexts) = 1)

\* C5: a safeResetAudioContext that directly follows a safeResetAudioContext issues
\* no disconnect and no close() and leaves context, analyser, source and tick handle
\* as they are.
C5_SecondSafeResetIsNoOp ==
  [][(/\ Len(hist) >= 1
      /\ hist[Len(hist)] = "safeReset"
      /\ hist' = Append(hist, "safeReset"))
     => UNCHANGED <<closeCalls, disconnectCalls, audioContext, analyser, audioSource,
                    animationFrameRef>>]_vars

\* C6: close() is invoked at most once on any AudioContext.
C6_CloseAtMostOnce == \A c \in CtxId : closeCalls[c] <= 1

\* ----------------------------------------------------- claims C7 .. C10

\* C7: a step of a superseded load (its 200 ms timer, its play() promise or its
\* 300 ms retry timer completing after the url effect was re-run) assigns no source,
\* calls no play() and leaves loading, isPlaying and error as they are.
C7_SupersededLoadHasNoEffect ==
  [][\A l \in LoadId :
       (~loads[l].isMounted /\ loads[l].phase # "none" /\ loads'[l].phase # loads[l].phase)
       => /\ audioSrc' = audioSrc
          /\ loads'[l].plays = loads[l].plays
          /\ loading' = loading
          /\ isPlaying' = isPlaying
          /\ error' = error]_vars

\* A load was superseded while its retry timer was pending, and the timer has fired.
C7_Witness ==
  \E l \in LoadId :
    /\ ~loads[l].isMounted /\ loads[l].phase = "done"
    /\ loads[l].plays = 1 /\ Len(loads[l].errs) = 1
    /\ cur # 0 /\ cur # l

\* C8: a load issues at most two automatic play() calls, the second only after the
\* first was rejected and after the 300 ms timer; a load that is still current when
\* that timer fires has issued exactly one retry.
C8_RetryExactlyOnce ==
  \A l \in LoadId :
    /\ loads[l].plays <= 2
    /\ (loads[l].plays = 2 => Len(loads[l].errs) >= 1)
    /\ (loads[l].phase = "timer" /\ loads[l].plays = 1 => loads[l].timer = RetryDelay)
    /\ (loads[l].phase = "timer" => loads[l].plays <= 1)
    /\ (loads[l].phase = "done" /\ loads[l].isMounted /\ Len(loads[l].errs) >= 1
          => loads[l].plays = 2)

\* The retry of a load was rejected too, and nothing more is pending for it.
C8_Witness ==
  \E l \in LoadId :
    loads[l].phase = "done" /\ loads[l].plays = 2 /\ Len(loads[l].errs) = 2

IsLoadError(e) ==
  e.text \in {"Error loading audio: ",
              "Error loading audio. Please try again or select another track."}

\* C9: when the automatic play() and its retry were both blocked by the browser
\* (NotAllowedError) the player is not loading, not playing, and reports a condition
\* that is not a load error.
C9_BlockedIsDistinguished ==
  \A l \in LoadId :
    (/\ l = cur /\ loads[l].isMounted /\ loads[l].phase = "done"
     /\ loads[l].errs = <<"NotAllowedError", "NotAllowedError">>
     /\ ~mediaError)
    => (~loading /\ ~isPlaying /\ error # NoError /\ ~IsLoadError(error))

\* C10: while isPlaying is false no animation frame is scheduled (so analyzeBass does
\* not run) and the published bassValue is 0; both hold from the step in which
\* isPlaying becomes false.
C10_StopsWhenNotPlaying == ~isPlaying => (frames = {} /\ bassValue = 0)

\* The loop has run (frames were requested) and isPlaying is false again.
C10_Witness == ~isPlaying /\ nextHandle > 2

\* ---------------------------------------------------- claims C11 .. C20

\* C11: whenever an animation frame of the analysis loop is scheduled, isPlaying is
\* true, an analyser is installed, and the loop reads that analyser.
C11_TickOnlyWhilePlaying ==
  frames # {} => (isPlaying /\ analyser # NoCtx /\ loop /\ loopAnalyser = analyser)

\* A tick has run and has scheduled the next one.
C11_Witness == frames # {} /\ nextHandle > 2 /\ isPlaying

\* C12: for every snapshot the blended value is at most 1 (50 fiftieths) and the
\* scaled value is within [0, 0.8] (0..800 thousandths); so is every published value,
\* the 0 published on stop or on error included.
C12_BassWithinRange ==
  /\ \A d \in Snapshots : NormalizedBass(d) <= 50 /\ ScaledBass(d) \in 0..800
  /\ bassValue \in 0..800

\* The largest value has been published (every bass bin at 255).
C12_Witness == bassValue = 800 /\ isPlaying

\* The last operation invoked on App.
LastOp == IF hist = <<>> THEN "none" ELSE hist[Len(hist)]

\* C13: when a track ends in repeat-one mode the element is sought to 0 and asked to
\* play again, the current track index and url stay as they are, and neither onNext
\* nor onPrevious is invoked.
C13_RepeatOneReplays ==
  [][(Ended /\ repeatMode = 2)
     => (/\ audioTime' = 0 /\ currentTime' = 0
         /\ lastEnded'.play /\ ~audioPaused'
         /\ ~lastEnded'.onNext /\ ~lastEnded'.onPrevious
         /\ audioSrc' = audioSrc
         /\ currentTrackIndex' = currentTrackIndex
         /\ currentTrack' = currentTrack /\ url' = url)]_vars

\* A track has ended in repeat-one mode and plays again from 0.
C13_Witness ==
  repeatMode = 2 /\ lastEnded.play /\ ~audioPaused /\ audioTime = 0 /\ currentTrackIndex >= 0

\* C14: when the last track of a list of more than one track ends in repeat-all mode
\* (list order), the current track index becomes 0.
C14_RepeatAllWraps ==
  [][(/\ Ended /\ repeatMode = 1 /\ ~isShuffled
      /\ Len(allTracks) > 1 /\ currentTrackIndex = Len(allTracks) - 1)
     => currentTrackIndex' = 0]_vars

\* C15: when the last track ends with repeat off (list order), isPlaying is false,
\* the position is 0 and the current track index is unchanged.
C15_NoRepeatStopsAtEnd ==
  [][(/\ Ended /\ repeatMode = 0 /\ ~isShuffled
      /\ Len(allTracks) >= 1 /\ currentTrackIndex = Len(allTracks) - 1)
     => (/\ ~isPlaying' /\ audioPaused'
         /\ currentTime' = 0 /\ audioTime' = 0
         /\ currentTrackIndex' = currentTrackIndex
         /\ currentTrack' = currentTrack)]_vars

\* The last track of a list of several was played to its end with repeat off.
C15_Witness ==
  /\ repeatMode = 0 /\ Len(allTracks) > 1
  /\ lastEnded.index = Len(allTracks) - 1 /\ currentTrackIndex = Len(allTracks) - 1
  /\ lastEnded.onNext /\ ~isPlaying /\ audioPaused /\ currentTime = 0

\* C16: when track A of [A, B, C] ends with repeat off (list order), B becomes current
\* in that step with the position at 0 and the player loading; the player then becomes
\* playing only through the load of the url that is current.
C16_AdvanceLoadsThenPlays ==
  [][/\ (/\ Ended /\ repeatMode = 0 /\ ~isShuffled
         /\ allTracks = <<TrackA, TrackB, TrackC>> /\ currentTrackIndex = 0)
        => (/\ currentTrackIndex' = 1 /\ currentTrack' = TrackB /\ url' = TrackB
            /\ currentTime' = 0 /\ audioTime' = 0
            /\ loading' /\ ~isPlaying')
     /\ (~isPlaying /\ isPlaying')
        => (/\ cur # 0 /\ loads[cur].url = url
            /\ loads[cur].phase \in {"play", "retryPlay"} /\ loads'[cur].phase = "done"
            /\ audioSrc = sanitizeUrl(url)
            /\ url' = url /\ currentTrackIndex' = currentTrackIndex)]_vars

\* A has ended, B is current and is playing.
C16_Witness ==
  /\ allTracks = <<TrackA, TrackB, TrackC>> /\ repeatMode = 0
  /\ lastEnded.index = 0 /\ lastEnded.onNext
  /\ currentTrackIndex = 1 /\ url = TrackB /\ audioSrc = sanitizeUrl(TrackB)
  /\ isPlaying /\ ~loading

\* C17: in shuffle mode a 'next' that follows a 'next' leaves the track that was
\* current before it in the history entry preceding the cursor, and a 'previous'
\* after two 'next' makes that entry current and draws nothing.
C17_PreviousReturnsToPrior ==
  [][/\ (isShuffled /\ LastOp = "next" /\ OnNext /\ LastOp' = "next")
        => (/\ shuffleHistoryIndex' >= 1
            /\ At(shuffleHistory', shuffleHistoryIndex' - 1) = currentTrackIndex)
     /\ (/\ isShuffled /\ Len(hist) >= 2 /\ LastOp = "next"
         /\ hist[Len(hist) - 1] = "next" /\ OnPrevious)
        => (/\ currentTrackIndex' = At(shuffleHistory, shuffleHistoryIndex - 1)
            /\ currentTrack' = At(allTracks, currentTrackIndex')
            /\ shuffleHistory' = shuffleHistory)]_vars

\* Two 'next' and then a 'previous' have been issued in shuffle mode.
C17_Witness ==
  isShuffled /\ hist = <<"next", "next", "previous">> /\ Len(allTracks) = 3

\* C18: whenever shuffle is active the history cursor is within
\* [0, shuffleHistory.length - 1].
C18_CursorWithinHistory ==
  isShuffled => (0 <= shuffleHistoryIndex /\ shuffleHistoryIndex <= Len(shuffleHistory) - 1)

\* C19: in shuffle mode a 'next' at the end of the history appends one index, which
\* becomes current and differs from the current index when the list has more than one
\* track, and moves the cursor to it; a 'next' before the end moves the cursor by one
\* to the stored entry.
C19_NextAppendsOrAdvances ==
  [][(OnNext /\ isShuffled)
     => IF shuffleHistoryIndex < Len(shuffleHistory) - 1
          THEN /\ shuffleHistory' = shuffleHistory
               /\ shuffleHistoryIndex' = shuffleHistoryIndex + 1
               /\ currentTrackIndex' = At(shuffleHistory, shuffleHistoryIndex + 1)
          ELSE /\ Len(shuffleHistory') = Len(shuffleHistory) + 1
               /\ SubSeq(shuffleHistory', 1, Len(shuffleHistory)) = shuffleHistory
               /\ shuffleHistoryIndex' = Len(shuffleHistory') - 1
               /\ currentTrackIndex' = shuffleHistory'[Len(shuffleHistory')]
               /\ (Len(allTracks) > 1 => currentTrackIndex' # currentTrackIndex)]_vars

\* C20: in shuffle mode 'previous' moves the cursor back by one and leaves the history
\* as it is, 'next' and 'previous' never remove or overwrite an entry, and a 'next'
\* that follows a 'previous' makes the stored entry current.
C20_HistoryOnlyGrows ==
  [][/\ ((OnNext \/ OnPrevious) /\ isShuffled)
        => (/\ Len(shuffleHistory) <= Len(shuffleHistory')
            /\ SubSeq(shuffleHistory', 1, Len(shuffleHistory)) = shuffleHistory)
     /\ (OnPrevious /\ isShuffled)
        => (/\ shuffleHistory' = shuffleHistory
            /\ shuffleHistoryIndex' = shuffleHistoryIndex - 1)
     /\ (OnNext /\ isShuffled /\ LastOp = "previous")
        => (/\ shuffleHistory' = shuffleHistory
            /\ currentTrackIndex' = At(shuffleHistory, shuffleHistoryIndex + 1))]_vars

\* A 'previous' and then a 'next' have been issued inside a history of three entries.
C20_Witness ==
  isShuffled /\ hist = <<"next", "previous", "next">> /\ Len(shuffleHistory) = 3

\* ---------------------------------------------------- claims C21 .. C30

\* t limited to [0, d].
Clamped(t, d) == IF t < 0 THEN 0 ELSE IF t > d THEN d ELSE t

\* C21: a seek to t while the duration is known sets the published position and the
\* element's position to t limited to [0, duration]; a seek while the duration is not
\* known changes neither.
C21_SeekClampedOrIgnored ==
  [][\A t \in 0..TrackDuration :
       Seek(t) => IF duration = 0
                    THEN currentTime' = currentTime /\ audioTime' = audioTime
                    ELSE /\ currentTime' = Clamped(t, duration)
                         /\ audioTime' = Clamped(t, duration)]_vars

\* C22: the volume the player holds and the volume of the element are within [0, 1]
\* (0..10 tenths).
C22_VolumeWithinRange == volume \in 0..10 /\ elementVolume \in 0..10

\* The context a resolved call has installed.
Installed(call) == IF call.wraps = 2 THEN call.retryCtx ELSE call.newCtx

\* C25: a call that has installed a graph and resolved true has called resume() on
\* the installed context when that context was created suspended; on the first-wrap
\* path the call resolves true with the graph installed by it whether resume() was
\* fulfilled or rejected.
C25_SuspendedIsResumed ==
  /\ [](\A k \in CallId :
          (calls[k].phase = "done" /\ calls[k].result = "true")
          => (ctxState[Installed(calls[k])] = "suspended" => calls[k].resumed))
  /\ [][\A k \in CallId :
          (calls[k].phase = "resume" /\ calls'[k].phase = "done")
          => (/\ calls'[k].result = "true"
              /\ UNCHANGED <<audioContext, analyser, audioSource>>)]_vars

\* C26: no exception and no rejection escapes the graph manager, and a call of
\* createAudioContext is either waiting for its 100 ms timer or for resume() to
\* settle, or it has resolved, true or false.
C26_NothingEscapes ==
  /\ ~unhandled
  /\ \A k \in CallId :
       /\ calls[k].phase \in {"none", "timer", "resume", "done"}
       /\ calls[k].phase = "done" <=> calls[k].result \in {"true", "false"}
       /\ calls[k].phase # "done" => calls[k].result = "pending"

\* disconnect() has thrown in a reset, and a later createAudioContext has resolved.
C26_Witness ==
  /\ fault = "disconnect" /\ disconnectCalls >= 2 /\ audioSource = NoCtx
  /\ \E k \in CallId : k >= 2 /\ calls[k].phase = "done"

\* C27: the step in which an error is reported (the element's 'error' event or a
\* failed load) reports a load error and leaves the player not loading and not
\* playing; selecting a track while an error is reported clears the error and starts
\* a load, with the player loading.
C27_LoadErrorIsRecoverable ==
  [][/\ (AudioError \/ (error = NoError /\ error' # NoError))
        => (IsLoadError(error') /\ ~loading' /\ ~isPlaying')
     /\ \A u \in TrackUrls :
          (ChangeUrl(u) /\ error # NoError)
          => (/\ error' = NoError /\ loading' /\ ~isPlaying'
              /\ cur' # 0 /\ loads'[cur'].isMounted
              /\ loads'[cur'].url = u /\ loads'[cur'].phase = "timer")]_vars

\* The resource of one track failed while its play() was pending; another track was
\* selected and is playing, with no error reported.
C27_Witness ==
  \E l1, l2 \in LoadId :
    /\ l1 # l2 /\ loads[l1].url # loads[l2].url
    /\ Len(loads[l1].errs) >= 1 /\ loads[l1].errs[1] = "NotSupportedError"
    /\ cur = l2 /\ loads[l2].phase = "done"
    /\ isPlaying /\ ~loading /\ error = NoError /\ ~mediaError

\* C28: a non-null animationFrameRef is the handle of a frame that is scheduled, and
\* a reset that cancels the frame sets the ref to null in the same step.
C28_HandleDenotesLiveLoop ==
  /\ [](animationFrameRef # 0 => animationFrameRef \in frames)
  /\ [][ResetCancelsFrame
        => (animationFrameRef' = 0 /\ frames' = frames \ {animationFrameRef})]_vars

\* C29: a tick in which reading the frequency data throws publishes 0, requests no
\* frame, and lets no exception out of the callback.
C29_TickExceptionIsCaught ==
  [][\A h \in 1..(MaxFrames + 1) :
       (Tick(h) /\ lastTick' = "caught")
       => (/\ bassValue' = 0
           /\ frames' = frames \ {h}
           /\ nextHandle' = nextHandle
           /\ ~unhandled')]_vars

\* A tick of a running loop (not the first run made by the effect) has thrown.
C29_Witness ==
  /\ lastTick = "caught" /\ animationFrameRef # 0 /\ frames = {}
  /\ isPlaying /\ analyser # NoCtx /\ loop /\ bassValue = 0

\* C30: the run of the visualization effect retries at most maxRetries times, and
\* when the creation it asked for has failed it has scheduled a retry.
C30_RetryAfterFailedCreation ==
  /\ viz.retryCount <= maxRetries
  /\ (/\ viz.call # 0
      /\ calls[viz.call].phase = "done" /\ calls[viz.call].result = "false")
     => (viz.retryCount >= 1 /\ viz.timers >= 1)

\* The wired player never waits on the 100 ms timer of createAudioContext and never
\* has an animation frame scheduled or an analyser installed after a render.
WiredNoTimerNoFrame ==
  /\ \A k \in CallId : calls[k].phase # "timer"
  /\ frames = {} /\ animationFrameRef = 0
  /\ analyser = NoCtx /\ audioSource = NoCtx

\* The load the current url started has completed and the player is playing.
LoadedAndPlaying ==
  /\ mounted /\ url # NoUrl /\ audioSrc = sanitizeUrl(url)
  /\ cur # 0 /\ loads[cur].phase = "done"
  /\ ~loading /\ isPlaying

\* C23: once the load of a track change has completed, a graph is installed on the
\* element, and the analysis loop runs if and only if the player is playing.
C23_GraphAfterLoad ==
  /\ LoadedAndPlaying => (audioContext # NoCtx /\ analyser # NoCtx /\ audioSource # NoCtx)
  /\ LoadedAndPlaying => frames # {}
  /\ ~isPlaying => frames = {}

\* C24: after the unmount, once the pending closes have resolved, no context is left
\* that is not closed, no node is connected and no animation frame is scheduled.
C24_UnmountLeavesNothing ==
  (~mounted /\ \A c \in CtxId : ~closing[c])
    => /\ Live(ctxState) = {}
       /\ \A c \in CtxId : ~srcEdge[c] /\ ~anEdge[c]
       /\ frames = {} /\ animationFrameRef = 0

\* ---------------------------------------------------- claims C31 .. C38

\* The listener's last operation was a play press whose createAudioContext installed
\* a graph on the element.
PressInstalledGraph ==
  /\ mounted /\ hist # <<>> /\ LastOp = "create"
  /\ calls[Len(hist)].phase \in {"resume", "done"}
  /\ calls[Len(hist)].result # "false"

\* C32: a graph installed by a play press stays installed and the element keeps its
\* source, as long as no track change, reset or unmount follows.
C32_GraphStaysInstalled ==
  PressInstalledGraph
    => /\ analyser = Installed(calls[Len(hist)])
       /\ audioContext = Installed(calls[Len(hist)])
       /\ ~closing[Installed(calls[Len(hist)])]
       /\ ctxState[Installed(calls[Len(hist)])] # "closed"
       /\ audioSrc # NoUrl

\* C33: a volume change leaves the graph state, the element's source and position,
\* the loading flag and the runs of the url effect as they are.
C33_VolumeChangesOnlyVolume ==
  [][\A v \in {w \in VolumeInputs : VolumeOK(w)} :
       VolumeChange(v) => /\ audioSrc' = audioSrc /\ audioTime' = audioTime
                          /\ audioPaused' = audioPaused
                          /\ loading' = loading
                          /\ loads' = loads /\ cur' = cur
                          /\ audioContext' = audioContext /\ analyser' = analyser
                          /\ audioSource' = audioSource /\ closing' = closing]_vars

\* C37: isPlaying is not false while the element is playing; in particular it is true
\* again once the replay of a track that ended in repeat-one mode has started.
C37_IsPlayingFollowsElement ==
  (audioSrc # NoUrl /\ ~audioPaused) => isPlaying

\* C34: while shuffle is on and the history is not empty, the history entry under the
\* cursor is the current track index.
C34_CursorEntryIsCurrent ==
  (isShuffled /\ shuffleHistory # <<>>)
    => /\ shuffleHistoryIndex \in 0..(Len(shuffleHistory) - 1)
       /\ At(shuffleHistory, shuffleHistoryIndex) = currentTrackIndex

\* C31: nextTrack at the last index makes index 0 current in repeat-all mode and
\* otherwise changes nothing; at any other index it makes the next index current;
\* previousTrack at index 0 changes nothing; both keep the index of the current track
\* within the playlist.
C31_NextAndPreviousStayInList ==
  [][LET i == currentIndex(store)
         n == Len(store.playlist)
     IN  /\ StoreNextTrack
              => IF i = n - 1
                   THEN IF store.repeatMode = 1
                          THEN store'.currentTrack = At(store.playlist, 0)
                          ELSE store'.currentTrack = store.currentTrack
                   ELSE store'.currentTrack = At(store.playlist, i + 1)
         /\ (StorePreviousTrack /\ i = 0) => store'.currentTrack = store.currentTrack
         /\ ((StoreNextTrack \/ StorePreviousTrack) /\ i \in 0..(n - 1))
              => currentIndex(store') \in 0..(n - 1)]_vars

\* nextTrack has wrapped from the last track of a three-track list to its first.
C31_Witness ==
  /\ store.did = "nextTrack" /\ store.repeatMode = 1
  /\ store.playlist = <<TrackA, TrackB, TrackC>>
  /\ store.currentTrack = TrackA /\ store.loading
  /\ store.requests[[url |-> TrackA, by |-> "setCurrentTrack"]] > 0
  /\ CacheHas(store.bufferCache, TrackC)

\* C35: in the audio store, after any interleaving of togglePlay with completions of
\* loadAudio, once no load is waiting, isPlaying is true exactly when a source node
\* of the manager is playing.
C35_IsPlayingMatchesSource ==
  (store.audioManager /\ Waiting(store) = 0)
    => (store.isPlaying <=> store.sourceNode # NoUrl)

\* C36: in the audio store, the completion of the load of a track that is no longer
\* the current one (setCurrentTrack was called for another track while the load was
\* waiting) starts no buffer and leaves loading, isPlaying and error as they are.
C36_LateCompletionIsIgnored ==
  [][\A r \in Requests :
       (r.by = "setCurrentTrack" /\ r.url # store.currentTrack
          /\ (LoadAudioDone(r) \/ LoadAudioFailed(r)))
         => /\ store'.sourceNode = store.sourceNode
            /\ store'.loading = store.loading
            /\ store'.isPlaying = store.isPlaying
            /\ store'.error = store.error]_vars

\* C38: for maxCacheSize >= 1 the buffer cache of the manager never holds more than
\* maxCacheSize entries, whatever loadAudio calls overlap; a completed load that
\* stores a new url into a full cache removes the entry inserted earliest; and a call
\* for a cached url gets the stored buffer without a fetch.
C38_CacheStaysWithinSize ==
  /\ [](store.audioManager => Len(store.bufferCache) <= store.maxCacheSize)
  /\ [][\A r \in Requests :
          (/\ LoadAudioDone(r)
           /\ ~CacheHas(store.bufferCache, r.url)
           /\ Len(store.bufferCache) >= store.maxCacheSize)
            => store'.bufferCache = Append(Tail(store.bufferCache), r.url)]_vars
  /\ [][\A u \in StoreTracks :
          (StoreSetCurrentTrack(u) /\ CacheHas(store.bufferCache, u))
            => /\ store'.requests = store.requests
               /\ store'.bufferCache = store.bufferCache
               /\ store'.sourceNode = u]_vars

\* A load has completed into a full cache of the largest size and removed its oldest
\* entry, while another load is still waiting.
C38_Witness ==
  /\ store.maxCacheSize = MaxCache
  /\ Len(store.bufferCache) = MaxCache
  /\ store.evicted # NoUrl
  /\ ~CacheHas(store.bufferCache, store.evicted)
  /\ Waiting(store) > 0

====
